---- MODULE Spec2Model ----
(***************************************************************************)
(* State-machine model of the Buck build-file interpreter worker           *)
(* (python-dsl/buck_parser/buck.py): the request loop of main(), the       *)
(* evaluation engine of BuildFileProcessor (context stacking, the include  *)
(* cache, context merging, load / include_defs), the rule insertion path   *)
(* and the user-defined-rule (UDR) factories.                              *)
(*                                                                         *)
(* Python objects that are shared by reference live in heaps indexed by    *)
(* identity: contexts (ctxs), the per-section dicts of used_configs        *)
(* (dicts), UDR factories (udrs) and module objects (modules).             *)
(***************************************************************************)
EXTENDS Integers, Sequences, FiniteSets, TLC

VARIABLES
    phase,              \* position of main(): "idle" | "running" | "crashed" | "eof"
    nread,              \* number of queries read from standard input so far
    query,              \* the query being processed
    responses,          \* objects written to the response channel, in order
    include_cache,      \* BuildFileProcessor._include_cache: key -> [ctx, mod]
    ctxs,               \* heap of BuildFileContext / IncludeContext objects
    dicts,              \* heap of the inner dicts of used_configs (section dicts)
    udrs,               \* heap of UserDefinedRule objects
    modules,            \* heap of module __dict__s; modules[i] belongs to ctxs[i]
    default_globals,    \* the three _default_globals_for_* tables
    stack,              \* the active _process calls, innermost last
    current_build_env,  \* BuildFileProcessor._current_build_env
    fn_build_env,       \* LazyBuildEnvPartial.build_env of every built-in
    exc,                \* the exception that is propagating, or NoExc
    executed,           \* how often exec(code) has started, per file path
    reads,              \* (section, field) pairs read_config was called with in this query
    file_open,          \* builtins.open: how many wrappers lie around the original
    options,            \* main: the parsed command-line options that select the glob policy
    glob_calls,         \* the glob backends called so far in this query
    platform,           \* what platform.system() and platform.machine() return
    cached_host_info,   \* _cached_host_info
    processed_build_file, \* main: {buildFile, duration} of every query processed
    produced            \* how many times _emit_warning has produced each diagnostic

vars == << phase, nread, query, responses, include_cache, ctxs, dicts, udrs,
           modules, default_globals, stack, current_build_env, fn_build_env,
           exc, executed, reads, file_open, options, glob_calls, platform,
           cached_host_info, processed_build_file, produced >>

\* Number of queries the parent sends before it closes standard input.
MaxQueries == 3

(***************************************************************************)
(* Python values                                                           *)
(***************************************************************************)
\* None, as a context reference.
NoEnv == 0
\* None, as a config / environment value (the "absent" sentinel).
PyNone == "<None>"

NoExc == [type |-> "none", msg |-> ""]
Exc(t, m) == [type |-> t, msg |-> m]

\* dict helpers: a dict is a function with a finite domain.
EmptyDict == [k \in {} |-> PyNone]
DictSet(d, k, v) == (k :> v) @@ d
\* dst.update(src): src wins on equal keys.
DictUpdate(dst, src) == src @@ dst

\* An insertion-ordered dict (module globals, rules): a sequence of bindings.
Unbound == [t |-> "unbound", v |-> 0]
ConstVal(n) == [t |-> "const", v |-> n]
UdrVal(u) == [t |-> "udr", v |-> u]
\* A str or path value a built-in returns (a sequence of its parts).
StrVal(s) == [t |-> "str", v |-> s]
\* A list of str.
ListVal(l) == [t |-> "list", v |-> l]
\* An attribute value the JSON encoder has no encoding for (a function object).
NotJson == "<function>"
\* The file object open() returns for a path.
FileVal(path) == [t |-> "file", v |-> path]

Keys(g) == {g[i].k : i \in 1..Len(g)}
Lookup(g, k) ==
    IF k \in Keys(g) THEN g[CHOOSE i \in 1..Len(g) : g[i].k = k].v ELSE Unbound
Bind(g, k, v) ==
    IF k \in Keys(g)
    THEN [i \in 1..Len(g) |-> IF g[i].k = k THEN [k |-> k, v |-> v] ELSE g[i]]
    ELSE Append(g, [k |-> k, v |-> v])

(***************************************************************************)
(* Paths and labels.  A path is the sequence of its components; a label is *)
(* the record of the parts the label grammars distinguish.                 *)
(***************************************************************************)
\* An include_defs / add_build_file_dep / implicit-include name "cell//rel";
\* slashes: the string has the "//" the grammar asks for.
IncName(cell, rel) == [cell |-> cell, rel |-> rel, slashes |-> TRUE]
\* A name without "//", such as "x".
PlainIncName(rel) == [cell |-> "", rel |-> rel, slashes |-> FALSE]
\* A load label "[@]cell//pkg:target" (root) or ":target" (relative); colon:
\* the string has the ":" the grammar asks for.
LoadName(at, cell, pkg, target) ==
    [root |-> TRUE, at |-> at, cell |-> cell, pkg |-> pkg, target |-> target,
     colon |-> TRUE]
RelLoadName(target) ==
    [root |-> FALSE, at |-> FALSE, cell |-> "", pkg |-> <<>>, target |-> target,
     colon |-> TRUE]
\* A label without ":", such as "x".
PlainLoadName(target) ==
    [root |-> FALSE, at |-> FALSE, cell |-> "", pkg |-> <<>>, target |-> target,
     colon |-> FALSE]
\* "/" in file_name, for the target strings of the corpus.
ContainsSlash(target) == target \in { "d/x" }

\* The label string of a BuildInclude: "[@]cell//rel" or "[@cell]//pkg:file".
IncLabel(at, cell, rel) ==
    [form |-> "include", at |-> at, cell |-> cell, pkg |-> rel, file |-> ""]
NoLabel == [form |-> "none", at |-> FALSE, cell |-> "", pkg |-> <<>>, file |-> ""]

BuildInclude(cell_name, label, path) ==
    [cell_name |-> cell_name, label |-> label, path |-> path]
NoInclude == BuildInclude("", NoLabel, <<>>)

\* os.path.normpath on a joined path: "." components disappear.
Normpath(p) == SelectSeq(p, LAMBDA c : c # ".")
\* os.path.dirname
Dirname(p) == SubSeq(p, 1, Len(p) - 1)
\* os.path.relpath(p, base) for p at or below base.
Relpath(p, base) ==
    IF p = base THEN << "." >> ELSE SubSeq(p, Len(base) + 1, Len(p))

(***************************************************************************)
(* Process arguments (the BuildFileProcessor constructor)                  *)
(***************************************************************************)
ProjectRoot == << "r" >>
\* --cell_root NAME=PATH: the cell "c" is an alias of the project root.
CellRoots == [c |-> << "r" >>]
CellName == ""
BuildFileName == "BUCK"
ImplicitIncludes == << IncName("", << "i" >>) >>
WarnAboutDeprecatedSyntax == TRUE
EnableUserDefinedRules == TRUE
\* --config: {section: {field: value}} flattened to (section, field) -> value.
Configs == (<< "s", "f1" >> :> "v1") @@ (<< "s", "f2" >> :> "v2")
\* os.environ
Environ == [E |-> "e"]


(***************************************************************************)
(* 4.A  Path & label resolver                                              *)
(***************************************************************************)
Resolved(err, warn, bi) == [err |-> err, warn |-> warn, bi |-> bi]

\* A lookup that answers the project root for a cell it does not know (a
\* fault the failed-resolution property must detect).
CellRootsGetOrRoot(cell) == IF cell \in DOMAIN CellRoots THEN CellRoots[cell] ELSE ProjectRoot

\* self._cell_roots.get(cell_name); <<>> stands for None.
CellRootsGet(cell) == IF cell \in DOMAIN CellRoots THEN CellRoots[cell] ELSE <<>>

\* BuildFileProcessor._get_cell_root
GetCellRoot(cell) == IF cell # "" THEN CellRootsGet(cell) ELSE ProjectRoot

\* BuildFileProcessor._get_label_for_include: "@cell//pkg:file" or "//pkg:file".
GetLabelForInclude(cell, pkg, file) ==
    [form |-> "load", at |-> (cell # ""), cell |-> cell, pkg |-> pkg, file |-> file]

\* A resolver that keeps the name of a named cell as it was written (a fault
\* the include-label property must detect).
ResolveIncludeVerbatim(name) ==
    IF ~name.slashes
    THEN Resolved(Exc("ValueError", "include_defs argument should be in the form of //path"),
                  FALSE, NoInclude)
    ELSE IF name.cell # "" /\ CellRootsGet(name.cell) = <<>>
    THEN Resolved(Exc("KeyError", "unknown cell"), FALSE, NoInclude)
    ELSE Resolved(NoExc, FALSE,
             BuildInclude(name.cell, IncLabel(FALSE, name.cell, name.rel),
                          Normpath(GetCellRoot(name.cell) \o name.rel)))

\* BuildFileProcessor._resolve_include
ResolveInclude(name) ==
    IF ~name.slashes
    THEN Resolved(Exc("ValueError", "include_defs argument should be in the form of //path"),
                  FALSE, NoInclude)
    ELSE IF name.cell # ""
    THEN IF CellRootsGet(name.cell) = <<>>
         THEN Resolved(Exc("KeyError", "unknown cell"), FALSE, NoInclude)
         ELSE Resolved(NoExc, FALSE,
                  BuildInclude(name.cell, IncLabel(TRUE, name.cell, name.rel),
                               Normpath(CellRootsGet(name.cell) \o name.rel)))
    ELSE Resolved(NoExc, FALSE,
             BuildInclude(name.cell, IncLabel(FALSE, name.cell, name.rel),
                          Normpath(ProjectRoot \o name.rel)))

\* A test that warns about the cell written with "@" (a fault the
\* deprecation-warning property must detect).
DeprecatedCellFormatWithAt(label) ==
    label.colon /\ label.cell # "" /\ label.at /\ WarnAboutDeprecatedSyntax

\* _get_load_path: the label has a cell that does not start with "@" and
\* warn_about_deprecated_syntax is set.
DeprecatedCellFormat(label) ==
    label.colon /\ label.cell # "" /\ ~label.at /\ WarnAboutDeprecatedSyntax

\* BuildFileProcessor._get_load_path, called with env = the active context.
\* warn: the deprecated-cell-format warning is emitted before resolution goes on.
GetLoadPath(label, env) ==
    LET warn == DeprecatedCellFormat(label)
        cell == IF label.cell # "" THEN label.cell ELSE env.cell_name
        root == GetCellRoot(cell)
        callee_dir == Dirname(env.path)
    IN  IF ~label.colon
        THEN Resolved(Exc("ValueError", "load label should be in the form of //path:file"),
                      warn, NoInclude)
        ELSE IF ~label.root /\ ContainsSlash(label.target)
        THEN Resolved(Exc("ValueError",
                          "Relative loads work only for files in the same directory"),
                      warn, NoInclude)
        ELSE IF root = <<>>
        THEN Resolved(Exc("KeyError", "unknown cell"), warn, NoInclude)
        ELSE IF ~label.root
        THEN Resolved(NoExc, warn,
                 BuildInclude(cell,
                     GetLabelForInclude(cell, Relpath(callee_dir, root), label.target),
                     Normpath(callee_dir \o << label.target >>)))
        ELSE Resolved(NoExc, warn,
                 BuildInclude(cell,
                     GetLabelForInclude(cell, label.pkg, label.target),
                     Normpath(root \o label.pkg \o << label.target >>)))

(***************************************************************************)
(* The working tree: build files and extension files.  A file is the       *)
(* sequence of the built-in calls its top-level code makes.                *)
(***************************************************************************)
SBind(sym, n) == [op |-> "bind", sym |-> sym, val |-> n]
SReadConfig(s, f) == [op |-> "read_config", section |-> s, field |-> f]
SGetEnv(n) == [op |-> "getenv", name |-> n]
SRule(n) == [op |-> "rule", name |-> n]
\* SYM = rule(attrs=...); an Attribute is [default, mandatory].
Attribute(default, mandatory) == [default |-> default, mandatory |-> mandatory]
NoAttrs == [k \in {} |-> Attribute(PyNone, FALSE)]
SDefRuleAttrs(sym, attrs) == [op |-> "def_rule", sym |-> sym, attrs |-> attrs]
SDefRule(sym) == SDefRuleAttrs(sym, NoAttrs)
\* SYM = OTHER, a top-level assignment of an existing binding.
SAlias(sym, other) == [op |-> "alias", sym |-> sym, other |-> other]
\* SYM(**kwargs); guarded: inside try/except Exception.  name: kwargs.get("name").
SUdrCallKw(sym, kwargs, guarded) ==
    [op |-> "udr_call", sym |-> sym,
     name |-> IF "name" \in DOMAIN kwargs THEN kwargs["name"] ELSE PyNone,
     kwargs |-> kwargs, guarded |-> guarded]
SUdrCall(sym, n) == SUdrCallKw(sym, "name" :> n, FALSE)
\* load(name, *symbols, **symbol_kwargs); guarded: inside try/except Exception.
SLoad(name, symbols, kwargs, guarded) ==
    [op |-> "load", name |-> name, symbols |-> symbols, symbol_kwargs |-> kwargs,
     guarded |-> guarded]
SIncludeDefs(name) == [op |-> "include_defs", name |-> name, guarded |-> FALSE]
SAddBuildFileDep(name) == [op |-> "add_build_file_dep", name |-> name, guarded |-> FALSE]
\* try: STMT / except Exception: pass
STry(stmt) == [stmt EXCEPT !.guarded = TRUE]
\* SYM = glob(includes); a pattern is the sequence of its "/"-separated parts.
SGlobInto(sym, includes) == [op |-> "glob", sym |-> sym, includes |-> includes]
SGlob == SGlobInto("S", << << "**", "*" >> >>)
\* SYM = FN(), FN one of package_name, get_base_path, get_cell_name,
\* repository_name; guarded: inside try/except Exception.
SCallBuiltin(sym, fn, guarded) ==
    [op |-> "builtin", sym |-> sym, fn |-> fn, guarded |-> guarded]
\* SYM = open(path), path absolute.
SOpenInto(sym, path) == [op |-> "open", sym |-> sym, path |-> path]
SFail == [op |-> "fail"]
SExit == [op |-> "exit"]

PathI == << "r", "i" >>
PathX == << "r", "x" >>
PathY == << "r", "y" >>
PathF == << "r", "f" >>
PathP == << "r", "p" >>
PathZ == << "r", "z" >>
PathW == << "r", "w" >>
PathV == << "r", "v" >>
PathO == << "r", "o" >>
BuildPath(pkg) == << "r", pkg, BuildFileName >>
\* The build file of the project root directory.
PathRoot == << "r", BuildFileName >>

\* Names that start with "_" (module-private).
PrivateSymbols == { "_k", "_p" }

Code(path) ==
    CASE path = PathI -> << SBind("K", 1), SBind("_k", 2) >>
      [] path = PathX -> << SReadConfig("s", "f2"), SDefRule("R") >>
      [] path = PathY -> << SLoad(LoadName(TRUE, "c", <<>>, "x"), << "R" >>, <<>>, FALSE) >>
      [] path = PathF -> << SLoad(RelLoadName("x"), << "R" >>, <<>>, FALSE), SFail >>
      [] path = PathP -> << SDefRule("RP") >>
      [] path = PathW ->
            << SDefRuleAttrs("A", ("x" :> Attribute("d", FALSE))
                                  @@ ("m" :> Attribute("0", TRUE))
                                  @@ ("_p" :> Attribute("q", FALSE))),
               SAlias("B", "A") >>
      [] path = PathV ->
            << SCallBuiltin("P", "package_name", TRUE),
               SCallBuiltin("G", "get_base_path", TRUE),
               SCallBuiltin("C", "get_cell_name", TRUE),
               SCallBuiltin("N", "repository_name", TRUE) >>
      [] path = BuildPath("p1") ->
            << SLoad(LoadName(FALSE, "", <<>>, "x"), << "R" >>, <<>>, FALSE),
               SReadConfig("s", "f1"),
               SUdrCall("R", "a") >>
      [] path = BuildPath("p2") ->
            << SLoad(LoadName(FALSE, "", <<>>, "y"), << "R" >>, <<>>, FALSE),
               SUdrCall("R", "b"),
               SGetEnv("E") >>
      [] path = BuildPath("p3") ->
            << SReadConfig("s", "f1"),
               SReadConfig("t", "g"),
               SLoad(LoadName(TRUE, "c", << "." >>, "x"), <<>>,
                     << [k |-> "Q", v |-> "R"] >>, FALSE) >>
      [] path = BuildPath("p4") ->
            << SIncludeDefs(IncName("", << "x" >>)), SUdrCall("R", "c") >>
      [] path = BuildPath("p5") ->
            << SRule("a"),
               SLoad(LoadName(FALSE, "c", <<>>, "x"), << "R" >>, <<>>, FALSE),
               SRule("a") >>
      [] path = BuildPath("p6") ->
            << SAddBuildFileDep(IncName("c", << "z" >>)),
               SGlob,
               SLoad(LoadName(FALSE, "", <<>>, "f"), << "R" >>, <<>>, TRUE),
               SGlobInto("E", <<>>) >>
      [] path = BuildPath("p7") -> << SRule("d") >>
      [] path = BuildPath("p8") -> << SGetEnv("E"), SExit >>
      [] path = BuildPath("p9") ->
            << SLoad(LoadName(FALSE, "", <<>>, "w"), << "A" >>, <<>>, FALSE),
               SUdrCallKw("A", ("name" :> "e") @@ ("m" :> "1"), FALSE),
               SUdrCallKw("A", "name" :> "g", TRUE),
               SUdrCallKw("A", ("name" :> "h") @@ ("m" :> "1") @@ ("zzz" :> "1"), TRUE),
               SUdrCallKw("A", "m" :> "1", TRUE),
               SUdrCallKw("A", ("name" :> "k") @@ ("m" :> "1") @@ ("_p" :> "z"), TRUE),
               SUdrCallKw("A", ("name" :> "n") @@ ("m" :> "2") @@ ("x" :> "y")
                               @@ ("visibility" :> "v"), FALSE),
               SLoad(LoadName(FALSE, "", <<>>, "w"), << "B", "M" >>, <<>>, TRUE) >>
      [] path = BuildPath("p10") ->
            << SIncludeDefs(IncName("", << "v" >>)),
               SCallBuiltin("P", "package_name", FALSE),
               SCallBuiltin("G", "get_base_path", FALSE),
               SCallBuiltin("C", "get_cell_name", FALSE),
               SCallBuiltin("N", "repository_name", FALSE),
               SDefRule("Z") >>
      [] path = PathO -> << SOpenInto("H", PathZ) >>
      [] path = BuildPath("p11") ->
            << SOpenInto("F", PathX),
               SIncludeDefs(IncName("", << "o" >>)),
               SAddBuildFileDep(IncName("", << "z" >>)),
               SOpenInto("F", PathZ),
               SOpenInto("F", PathW),
               SIncludeDefs(IncName("", << "o" >>)) >>
      [] path = BuildPath("p12") ->
            << SLoad(LoadName(FALSE, "c", <<>>, "w"), << "A" >>, <<>>, FALSE),
               SUdrCallKw("A", ("name" :> "u") @@ ("m" :> NotJson), FALSE),
               SUdrCallKw("A", ("name" :> NotJson) @@ ("m" :> "1"), TRUE) >>
      [] path = PathRoot ->
            << SIncludeDefs(IncName("c", << "x" >>)),
               STry(SIncludeDefs(PlainIncName(<< "x" >>))),
               STry(SIncludeDefs(IncName("u", << "x" >>))),
               STry(SAddBuildFileDep(IncName("u", << "z" >>))),
               SLoad(PlainLoadName("x"), << "R" >>, <<>>, TRUE),
               SLoad(LoadName(TRUE, "u", <<>>, "x"), << "R" >>, <<>>, TRUE),
               SLoad(RelLoadName("d/x"), << "R" >>, <<>>, TRUE),
               SGlobInto("M", << << "a", "**", "b" >> >>),
               SGlobInto("X", << << "a" >>, << "*", "**", "x" >> >>) >>
      [] OTHER -> <<>>

\* The queries the parent may send: {buildFile, packageImplicitLoad?}.
NoPackageLoad ==
    [has |-> FALSE, load_path |-> RelLoadName(""), load_symbols |-> <<>>]
Query(pkg, pil) == [buildFile |-> << pkg, BuildFileName >>, packageImplicitLoad |-> pil]
\* The query for the build file of the project root directory.
RootQuery == [buildFile |-> << BuildFileName >>, packageImplicitLoad |-> NoPackageLoad]
Queries ==
    { Query(p, NoPackageLoad) : p \in { "p1", "p2", "p3", "p4", "p5", "p6", "p8", "p9", "p10",
                                     "p11", "p12" } }
    \cup { Query("p7", [has |-> TRUE,
                        load_path |-> LoadName(FALSE, "", <<>>, "p"),
                        load_symbols |-> << [k |-> "RP", v |-> "RP"] >>]) }
    \cup { RootQuery }
NoQuery == Query("", NoPackageLoad)


Files ==
    { PathI, PathX, PathY, PathF, PathP, PathZ, PathW, PathV, PathO }
    \cup { ProjectRoot \o q.buildFile : q \in Queries }

(***************************************************************************)
(* 4.D  Context model                                                      *)
(***************************************************************************)
\* BuildFileContext.__init__
BuildFileContext(base_path, path) ==
    [kind |-> "build", path |-> path, label |-> NoLabel, cell_name |-> CellName,
     base_path |-> base_path, includes |-> {}, used_configs |-> [k \in {} |-> 0],
     used_env_vars |-> EmptyDict, diagnostics |-> <<>>, user_rules |-> {},
     rules |-> <<>>, implicit_package_symbols |-> <<>>]

\* IncludeContext.__init__ (no rules, no base_path: the fields stay empty).
IncludeContext(cell_name, path, label) ==
    [kind |-> "include", path |-> path, label |-> label, cell_name |-> cell_name,
     base_path |-> <<>>, includes |-> {}, used_configs |-> [k \in {} |-> 0],
     used_env_vars |-> EmptyDict, diagnostics |-> <<>>, user_rules |-> {},
     rules |-> <<>>, implicit_package_symbols |-> <<>>]

Diagnostic(message, level, source) ==
    [message |-> message, level |-> level, source |-> source]

\* An assignment in place of the add (a fault the add_build_file_dep frame
\* property must detect).
SetInclude(cs, env, path) == [cs EXCEPT ![env].includes = { path }]

\* build_env.includes.add(path)
AddInclude(cs, env, path) == [cs EXCEPT ![env].includes = @ \cup { path }]

\* A merge that puts the diagnostics of src ahead of those dst already has (a
\* fault the diagnostics-order property must detect).
MergeDiagnosticsFirst(cs, dst, src) ==
    [cs EXCEPT ![dst] =
        [@ EXCEPT !.includes = @ \cup cs[src].includes,
                  !.diagnostics = cs[src].diagnostics \o @,
                  !.used_configs = DictUpdate(@, cs[src].used_configs),
                  !.used_env_vars = DictUpdate(@, cs[src].used_env_vars),
                  !.user_rules = @ \cup cs[src].user_rules]]

\* A merge whose used_configs keeps dst's entry on equal keys (a fault the
\* merge frame property must detect).
MergeFirstWins(cs, dst, src) ==
    [cs EXCEPT ![dst] =
        [@ EXCEPT !.includes = @ \cup cs[src].includes,
                  !.diagnostics = @ \o cs[src].diagnostics,
                  !.used_configs = DictUpdate(cs[src].used_configs, @),
                  !.used_env_vars = DictUpdate(@, cs[src].used_env_vars),
                  !.user_rules = @ \cup cs[src].user_rules]]

\* AbstractContext.merge: dst.merge(src).  used_configs.update is shallow: dst's
\* entry for a section becomes src's section dict itself (the same object).
Merge(cs, dst, src) ==
    [cs EXCEPT ![dst] =
        [@ EXCEPT !.includes = @ \cup cs[src].includes,
                  !.diagnostics = @ \o cs[src].diagnostics,
                  !.used_configs = DictUpdate(@, cs[src].used_configs),
                  !.used_env_vars = DictUpdate(@, cs[src].used_env_vars),
                  !.user_rules = @ \cup cs[src].user_rules]]

\* The count of the diagnostics produced, after one more production of d.
ProducedOnceMore(pr, d) ==
    IF d \in DOMAIN pr THEN [pr EXCEPT ![d] = @ + 1] ELSE (d :> 1) @@ pr

\* The same after the production of every diagnostic of l.
RECURSIVE ProducedAll(_, _)
ProducedAll(pr, l) ==
    IF l = <<>> THEN pr ELSE ProducedAll(ProducedOnceMore(pr, Head(l)), Tail(l))

\* BuildFileProcessor._emit_warning
EmitWarning(cs, env, message, source) ==
    IF env = NoEnv THEN cs
    ELSE [cs EXCEPT ![env].diagnostics = Append(@, Diagnostic(message, "warning", source))]

(***************************************************************************)
(* Symbol tables                                                           *)
(***************************************************************************)
\* _HIDDEN_GLOBALS
HiddenGlobals == { "include_defs", "load" }

RECURSIVE MergeGlobalsFrom(_, _, _)
MergeGlobalsFrom(src, dst, i) ==
    IF i > Len(src) THEN dst
    ELSE MergeGlobalsFrom(src,
             IF src[i].k \notin PrivateSymbols /\ src[i].k \notin HiddenGlobals
             THEN Bind(dst, src[i].k, src[i].v) ELSE dst,
             i + 1)

\* BuildFileProcessor._merge_globals
MergeGlobals(mod, dst) == MergeGlobalsFrom(mod, dst, 1)

RECURSIVE MergeWhitelist(_, _, _, _)
MergeWhitelist(src, r, pairs, i) ==
    IF i > Len(pairs) \/ r.err # NoExc THEN r
    ELSE MergeWhitelist(src,
             IF pairs[i].v \notin Keys(src)
             THEN [r EXCEPT !.err = Exc("KeyError", "symbol is not defined")]
             ELSE [r EXCEPT !.globals = Bind(@, pairs[i].k, Lookup(src, pairs[i].v))],
             pairs, i + 1)

\* A merge that binds a keyword symbol under its name in the module instead
\* of the exported name (a fault the load-binding property must detect).
MergeExplicitGlobalsByModuleName(src, dst, whitelist, whitelist_mapping) ==
    MergeWhitelist(src,
        MergeWhitelist(src, [err |-> NoExc, globals |-> dst],
            [i \in 1..Len(whitelist) |-> [k |-> whitelist[i], v |-> whitelist[i]]], 1),
        [i \in 1..Len(whitelist_mapping) |->
            [k |-> whitelist_mapping[i].v, v |-> whitelist_mapping[i].v]], 1)

\* BuildFileProcessor._merge_explicit_globals: whitelist, then whitelist_mapping.
MergeExplicitGlobals(src, dst, whitelist, whitelist_mapping) ==
    MergeWhitelist(src,
        MergeWhitelist(src, [err |-> NoExc, globals |-> dst],
            [i \in 1..Len(whitelist) |-> [k |-> whitelist[i], v |-> whitelist[i]]], 1),
        whitelist_mapping, 1)

(***************************************************************************)
(* 4.G  User-defined rules                                                 *)
(***************************************************************************)
NoType == [label |-> NoLabel, name |-> ""]
NativeType(name) == [label |-> NoLabel, name |-> name]

\* generated_rules.IMPLICIT_REQUIRED_ATTRS / IMPLICIT_OPTIONAL_ATTRS (test=False).
ImplicitRequiredAttrs == { "name" }
ImplicitOptionalAttrs == { "visibility" }

\* UserDefinedRule._validate_attributes: the error it raises, if any.
ValidateAttributesError(attrs) ==
    IF \E n \in DOMAIN attrs : n \in ImplicitRequiredAttrs \cup ImplicitOptionalAttrs
    THEN Exc("ValueError", "shadows a builtin attribute of the same name")
    ELSE NoExc

\* Every attribute is kept, the private ones too (a fault the private-attribute
\* property must detect).
KeepAllAttributes(attrs) == attrs

\* UserDefinedRule._validate_attributes: the attributes it returns, those
\* whose name does not start with "_".
ValidateAttributes(attrs) ==
    [n \in { k \in DOMAIN attrs : k \notin PrivateSymbols } |-> attrs[n]]

\* UserDefinedRule.__init__ (declared: the attrs argument as rule() received
\* it, kept for the properties; the code keeps only the validated attrs).
UserDefinedRule(label, attrs) ==
    [label |-> label, buck_type |-> NoType, name |-> "", build_env |-> NoEnv,
     required_attrs |-> ImplicitRequiredAttrs, optional_attrs |-> ImplicitOptionalAttrs,
     attrs |-> ValidateAttributes(attrs), declared |-> attrs]

\* UserDefinedRule.__init__: self.all_attrs
AllAttrs(udr) == udr.required_attrs \cup udr.optional_attrs \cup DOMAIN udr.attrs

\* UserDefinedRule.set_name
SetName(udr, name) ==
    [udr EXCEPT !.buck_type = [label |-> udr.label, name |-> name], !.name = name]

\* BuildFileProcessor._update_functions, the part that rebinds the UDRs of
\* build_env.user_rules (the built-ins' pointer is fn_build_env).
UpdateFunctions(us, cs, env) ==
    IF env = NoEnv THEN us
    ELSE [u \in 1..Len(us) |->
             IF u \in cs[env].user_rules THEN [us[u] EXCEPT !.build_env = env]
             ELSE us[u]]

\* A _load without its last loop (a fault the load property must detect).
KeepUserRules(us, cs, env) == us

\* _load, its last loop: for rule in build_env.user_rules: rule.build_env = build_env
RefreshUserRules(us, cs, env) ==
    [u \in 1..Len(us) |->
        IF u \in cs[env].user_rules THEN [us[u] EXCEPT !.build_env = env] ELSE us[u]]

\* _process_include: the scan of the module's top-level bindings, in dict order.
RECURSIVE ScanUserRules(_, _, _, _)
ScanUserRules(mod, label, r, i) ==
    IF i > Len(mod) THEN r
    ELSE ScanUserRules(mod, label,
             IF mod[i].v.t = "udr" /\ r.udrs[mod[i].v.v].label = label
             THEN [udrs |-> [r.udrs EXCEPT ![mod[i].v.v] = SetName(@, mod[i].k)],
                   found |-> r.found \cup { mod[i].v.v }]
             ELSE r,
             i + 1)

RuleNames(rules) == { rules[i].name : i \in 1..Len(rules) }

\* An add_rule that overwrites an existing name (a fault the duplicate-name
\* property must detect): rules[rule_name] = rule without the duplicate test.
AddRuleOverwrite(cs, rule, env) ==
    [err |-> NoExc,
     ctxs |-> [cs EXCEPT ![env].rules =
                   Append(SelectSeq(@, LAMBDA r : r.name # rule.name),
                          [rule EXCEPT !.base_path = cs[env].base_path])]]

\* isinstance(v, string_types), for the values a rule name can have here.
IsString(v) == v \notin { PyNone, NotJson }

\* An add_rule that leaves buck.base_path as the rule function built it (a
\* fault the base-path property must detect).
AddRuleKeepBasePath(cs, rule, env) ==
    IF env = NoEnv \/ cs[env].kind # "build"
    THEN [err |-> Exc("AssertionError", "Cannot use at the top-level of an included file"),
          ctxs |-> cs]
    ELSE IF ~IsString(rule.name)
    THEN [err |-> Exc("ValueError", "rules 'name' field must be a string"), ctxs |-> cs]
    ELSE IF rule.name \in RuleNames(cs[env].rules)
    THEN [err |-> Exc("ValueError", "Duplicate rule definition"), ctxs |-> cs]
    ELSE [err |-> NoExc, ctxs |-> [cs EXCEPT ![env].rules = Append(@, rule)]]

\* add_rule(rule, build_env)
AddRule(cs, rule, env) ==
    IF env = NoEnv \/ cs[env].kind # "build"
    THEN [err |-> Exc("AssertionError", "Cannot use at the top-level of an included file"),
          ctxs |-> cs]
    ELSE IF ~IsString(rule.name)
    THEN [err |-> Exc("ValueError", "rules 'name' field must be a string"), ctxs |-> cs]
    ELSE IF rule.name \in RuleNames(cs[env].rules)
    THEN [err |-> Exc("ValueError", "Duplicate rule definition"), ctxs |-> cs]
    ELSE [err |-> NoExc,
          ctxs |-> [cs EXCEPT ![env].rules =
                        Append(@, [rule EXCEPT !.base_path = cs[env].base_path])]]


(***************************************************************************)
(* Sandboxing of builtins.open                                             *)
(***************************************************************************)
\* builtins.open as Python starts with it: no wrapper around it.
OrigOpen == 0

\* A _wrap_fun_for_file_access without the "don't wrap again" test (a fault
\* the wrapped-once property must detect).
WrapAlways(real, wrap) ==
    IF wrap THEN real + 1 ELSE IF real # OrigOpen THEN real - 1 ELSE real

\* _wrap_fun_for_file_access(builtins, "open", wrap): the function installed
\* inside the scope, given the one found on entry (real).  The finally block
\* of the scope puts real back.
WrapFunForFileAccess(real, wrap) ==
    IF wrap
    THEN IF real = OrigOpen THEN real + 1 ELSE real
    ELSE IF real # OrigOpen THEN real - 1 ELSE real

(***************************************************************************)
(* Host information                                                        *)
(***************************************************************************)
\* A platform string is the sequence of its characters.  The strings
\* platform.system() and platform.machine() may return.
Systems ==
    { << "D", "a", "r", "w", "i", "n" >>,
      << "d", "a", "r", "w", "i", "n" >>,
      << "L", "i", "n", "u", "x" >>,
      << "L", "I", "N", "U", "X" >>,
      << "W", "i", "n", "d", "o", "w", "s" >>,
      << "F", "r", "e", "e", "B", "S", "D" >>,
      << "S", "u", "n", "O", "S" >>,
      << "m", "a", "c", "o", "s" >>,
      <<>> }
Machines ==
    { << "x", "8", "6", "_", "6", "4" >>,
      << "X", "8", "6", "_", "6", "4" >>,
      << "A", "M", "D", "6", "4" >>,
      << "a", "m", "d", "6", "4" >>,
      << "a", "r", "m", "6", "4" >>,
      << "A", "R", "M", "6", "4" >>,
      << "a", "a", "r", "c", "h", "6", "4" >>,
      << "a", "r", "m" >>,
      << "a", "r", "m", "e", "b" >>,
      << "i", "3", "8", "6" >>,
      << "m", "i", "p", "s" >>,
      << "m", "i", "p", "s", "6", "4" >>,
      << "m", "i", "p", "s", "e", "l" >>,
      << "m", "i", "p", "s", "e", "l", "6", "4" >>,
      << "p", "o", "w", "e", "r", "p", "c" >>,
      << "p", "p", "c", "6", "4" >>,
      << "u", "n", "k", "n", "o", "w", "n" >>,
      << "r", "i", "s", "c", "v", "6", "4" >> }

\* str.lower(), character by character.
UpperToLower ==
    [A |-> "a", B |-> "b", C |-> "c", D |-> "d", E |-> "e", F |-> "f",
     G |-> "g", H |-> "h", I |-> "i", J |-> "j", K |-> "k", L |-> "l",
     M |-> "m", N |-> "n", O |-> "o", P |-> "p", Q |-> "q", R |-> "r",
     S |-> "s", T |-> "t", U |-> "u", V |-> "v", W |-> "w", X |-> "x",
     Y |-> "y", Z |-> "z"]
Lower(str) ==
    [i \in 1..Len(str) |-> IF str[i] \in DOMAIN UpperToLower THEN UpperToLower[str[i]]
                           ELSE str[i]]

\* __supported_oses and __supported_archs.
SupportedOses ==
    (<< "d", "a", "r", "w", "i", "n" >> :> "macos")
    @@ (<< "w", "i", "n", "d", "o", "w", "s" >> :> "windows")
    @@ (<< "l", "i", "n", "u", "x" >> :> "linux")
    @@ (<< "f", "r", "e", "e", "b", "s", "d" >> :> "freebsd")
SupportedArchs ==
    (<< "a", "a", "r", "c", "h", "6", "4" >> :> "aarch64")
    @@ (<< "a", "r", "m" >> :> "arm")
    @@ (<< "a", "r", "m", "e", "b" >> :> "armeb")
    @@ (<< "i", "3", "8", "6" >> :> "i386")
    @@ (<< "m", "i", "p", "s" >> :> "mips")
    @@ (<< "m", "i", "p", "s", "6", "4" >> :> "mips64")
    @@ (<< "m", "i", "p", "s", "e", "l" >> :> "mipsel")
    @@ (<< "m", "i", "p", "s", "e", "l", "6", "4" >> :> "mipsel64")
    @@ (<< "p", "o", "w", "e", "r", "p", "c" >> :> "powerpc")
    @@ (<< "p", "p", "c", "6", "4" >> :> "ppc64")
    @@ (<< "u", "n", "k", "n", "o", "w", "n" >> :> "unknown")
    @@ (<< "x", "8", "6", "_", "6", "4" >> :> "x86_64")
    @@ (<< "a", "m", "d", "6", "4" >> :> "x86_64")
    @@ (<< "a", "r", "m", "6", "4" >> :> "aarch64")

\* dict.get(key, default)
DictGetOr(d, key, default) == IF key \in DOMAIN d THEN d[key] ELSE default

\* A host_info that looks the strings up as they are, without lower() (a
\* fault the host-flags property must detect).
HostInfoCaseSensitive(platform_system, platform_machine) ==
    LET host_arch == DictGetOr(SupportedArchs, platform_machine, "unknown")
        host_os == DictGetOr(SupportedOses, platform_system, "unknown")
    IN  [os |-> [is_linux |-> host_os = "linux", is_macos |-> host_os = "macos",
                 is_windows |-> host_os = "windows", is_freebsd |-> host_os = "freebsd",
                 is_unknown |-> host_os = "unknown"],
         arch |-> [is_aarch64 |-> host_arch = "aarch64", is_arm |-> host_arch = "arm",
                   is_armeb |-> host_arch = "armeb", is_i386 |-> host_arch = "i386",
                   is_mips |-> host_arch = "mips", is_mips64 |-> host_arch = "mips64",
                   is_mipsel |-> host_arch = "mipsel",
                   is_mipsel64 |-> host_arch = "mipsel64",
                   is_powerpc |-> host_arch = "powerpc", is_ppc64 |-> host_arch = "ppc64",
                   is_unknown |-> host_arch = "unknown",
                   is_x86_64 |-> host_arch = "x86_64"]]

\* host_info(platform_system, platform_machine): the HostInfo record.
HostInfo(platform_system, platform_machine) ==
    LET host_arch == DictGetOr(SupportedArchs, Lower(platform_machine), "unknown")
        host_os == DictGetOr(SupportedOses, Lower(platform_system), "unknown")
    IN  [os |-> [is_linux |-> host_os = "linux", is_macos |-> host_os = "macos",
                 is_windows |-> host_os = "windows", is_freebsd |-> host_os = "freebsd",
                 is_unknown |-> host_os = "unknown"],
         arch |-> [is_aarch64 |-> host_arch = "aarch64", is_arm |-> host_arch = "arm",
                   is_armeb |-> host_arch = "armeb", is_i386 |-> host_arch = "i386",
                   is_mips |-> host_arch = "mips", is_mips64 |-> host_arch = "mips64",
                   is_mipsel |-> host_arch = "mipsel",
                   is_mipsel64 |-> host_arch = "mipsel64",
                   is_powerpc |-> host_arch = "powerpc", is_ppc64 |-> host_arch = "ppc64",
                   is_unknown |-> host_arch = "unknown",
                   is_x86_64 |-> host_arch = "x86_64"]]

\* _cached_host_info before the module body has assigned it.
NoHostInfo == [os |-> << >>, arch |-> << >>]

(***************************************************************************)
(* 4.E  Evaluation engine                                                  *)
(***************************************************************************)
\* end_time - start_time of a query in the engine's steps, which take no
\* time of their own: one tick of the clock.
Tick == 1

\* The state of the engine when main starts.
EngineInit ==
    /\ phase = "idle"
    /\ nread = 0
    /\ query = NoQuery
    /\ responses = <<>>
    /\ include_cache = [k \in {} |-> [ctx |-> NoEnv, mod |-> NoEnv]]
    /\ ctxs = <<>>
    /\ dicts = <<>>
    /\ udrs = <<>>
    /\ modules = <<>>
    /\ default_globals = [build_file |-> <<>>, extension |-> <<>>, implicit_include |-> <<>>]
    /\ stack = <<>>
    /\ current_build_env = NoEnv
    /\ fn_build_env = NoEnv
    /\ exc = NoExc
    /\ executed = [p \in Files |-> 0]
    /\ reads = {}
    /\ file_open = OrigOpen
    /\ processed_build_file = <<>>
    /\ produced = << >>
    /\ glob_calls = {}

\* The worker on a Linux x86_64 host: the module body has computed
\* _cached_host_info before main runs.
Init ==
    /\ EngineInit
    /\ options \in [use_watchman_glob : BOOLEAN, allow_empty_globs : BOOLEAN,
                    profile : { FALSE }]
    /\ platform = << << "L", "i", "n", "u", "x" >>, << "x", "8", "6", "_", "6", "4" >> >>
    /\ cached_host_info = HostInfo(platform[1], platform[2])

\* The module body, "_cached_host_info = host_info()", on any platform.
ImportModule ==
    /\ cached_host_info = NoHostInfo
    /\ cached_host_info' = HostInfo(platform[1], platform[2])
    /\ UNCHANGED << phase, nread, query, responses, include_cache, ctxs, dicts, udrs,
                    modules, default_globals, stack, current_build_env, fn_build_env,
                    exc, executed, reads, file_open, options, glob_calls, platform, processed_build_file,
                    produced >>

\* One active _process call.  stage: "implicit" (the loop over the implicit
\* includes, at index idx, then the package implicit load), "enter" (about to
\* build the module and execute the code), "body" (executing statement pc).
\* saved_open: the open the sandboxing scope found.  caught: the exception the
\* try/except around the previous statement caught, NoExc if it raised none.
Frame(ctx, path, is_implicit_include) ==
    [ctx |-> ctx, path |-> path, implicit |-> is_implicit_include,
     stage |-> IF is_implicit_include THEN "enter" ELSE "implicit", idx |-> 1, pc |-> 1,
     saved_open |-> OrigOpen, caught |-> NoExc]

Top == stack[Len(stack)]
Evaluating == phase = "running" /\ exc = NoExc /\ stack # <<>>
InBody == Evaluating /\ Top.stage = "body" /\ Top.pc <= Len(Code(Top.path))
AtEnd == Evaluating /\ Top.stage = "body" /\ Top.pc > Len(Code(Top.path))
Stmt == Code(Top.path)[Top.pc]
At(op) == InBody /\ Stmt.op = op
Advance(stk) == [stk EXCEPT ![Len(stk)].pc = @ + 1, ![Len(stk)].caught = NoExc]

\* _process: the default globals table a file is executed with.
Table(fr, cs) ==
    IF cs[fr.ctx].kind = "include"
    THEN IF fr.implicit THEN "implicit_include" ELSE "extension"
    ELSE "build_file"

\* package_implicit_load as _process receives it: only for the build file.
HasPackageLoad(fr, cs) == cs[fr.ctx].kind = "build" /\ query.packageImplicitLoad.has

\* The operation of frame fr that is waiting for _process_include to return.
Pending(fr) ==
    IF fr.stage = "implicit"
    THEN IF fr.idx <= Len(ImplicitIncludes) THEN "implicit" ELSE "package"
    ELSE Code(fr.path)[fr.pc].op

\* Whether an exception raised by (or under) the pending statement of frame fr
\* is caught by the file's own try/except Exception around that statement.
Caught(fr, e) ==
    /\ fr.stage = "body"
    /\ fr.pc <= Len(Code(fr.path))
    /\ Code(fr.path)[fr.pc].op \in { "load", "udr_call", "builtin", "include_defs",
                                  "add_build_file_dep" }
    /\ Code(fr.path)[fr.pc].guarded
    /\ e.type # "SystemExit"

\* An exception e leaves the pending statement of the top frame of stk.
RaiseIn(stk, e) ==
    IF Caught(stk[Len(stk)], e)
    THEN exc' = NoExc /\ stack' = [stk EXCEPT ![Len(stk)].pc = @ + 1, ![Len(stk)].caught = e]
    ELSE exc' = e /\ stack' = stk

\* A cache keyed by the label instead of the path (a fault the cache-identity
\* property must detect).
CacheKeyByLabel(bi) == bi.label

\* The key of the include cache: build_include.path.
CacheKey(bi) == bi.path
\* self._include_cache[build_include.path] = build_env, mod
CachePut(cache, bi, id) == (CacheKey(bi) :> [ctx |-> id, mod |-> id]) @@ cache

\* _load_package_implicit: implicit_package_symbols[key] = getattr(module, value)
RECURSIVE LoadPackageSymbols(_, _, _, _)
LoadPackageSymbols(mod, r, pairs, i) ==
    IF i > Len(pairs) \/ r.err # NoExc THEN r
    ELSE LoadPackageSymbols(mod,
             IF pairs[i].v \notin Keys(mod)
             THEN [r EXCEPT !.err = Exc("BuildFileFailError", "Could not find symbol")]
             ELSE [r EXCEPT !.syms = Bind(@, pairs[i].k, Lookup(mod, pairs[i].v))],
             pairs, i + 1)

\* What the caller (frame fr, on top of stk) does once _process_include has
\* returned (inner, module) for bi: the rest of _process's implicit-include
\* loop body, of _load_package_implicit, of _load or of _include_defs.
FinishInclude(fr, bi, inner, cs, us, stk) ==
    LET how == Pending(fr)
        merged == Merge(AddInclude(cs, fr.ctx, bi.path), fr.ctx, inner)
        top == Len(stk)
    IN  CASE how = "implicit" ->
               /\ default_globals' =
                      [default_globals EXCEPT ![Table(fr, cs)] = MergeGlobals(modules[inner], @)]
               /\ ctxs' = merged
               /\ udrs' = us
               /\ modules' = modules
               /\ stack' = [stk EXCEPT ![top].idx = @ + 1]
               /\ exc' = NoExc
          [] how = "package" ->
               LET r == LoadPackageSymbols(modules[inner],
                            [err |-> NoExc, syms |-> cs[fr.ctx].implicit_package_symbols],
                            query.packageImplicitLoad.load_symbols, 1)
                   cs1 == [cs EXCEPT ![fr.ctx].implicit_package_symbols = r.syms]
               IN  /\ ctxs' = IF r.err # NoExc THEN cs1
                              ELSE Merge(AddInclude(cs1, fr.ctx, bi.path), fr.ctx, inner)
                   /\ udrs' = us
                   /\ modules' = modules
                   /\ default_globals' = default_globals
                   /\ exc' = r.err
                   /\ stack' = IF r.err # NoExc THEN stk
                                ELSE [stk EXCEPT ![top].stage = "enter"]
          [] how = "load" ->
               LET st == Code(fr.path)[fr.pc]
                   r == MergeExplicitGlobals(modules[inner], modules[fr.ctx],
                                             st.symbols, st.symbol_kwargs)
               IN  /\ default_globals' = default_globals
                   /\ IF r.err # NoExc
                      THEN /\ ctxs' = cs
                           /\ udrs' = us
                           /\ modules' = [modules EXCEPT ![fr.ctx] = r.globals]
                           /\ RaiseIn(stk, r.err)
                      ELSE /\ ctxs' = merged
                           /\ udrs' = RefreshUserRules(us, merged, fr.ctx)
                           /\ modules' = [modules EXCEPT ![fr.ctx] = r.globals]
                           /\ exc' = NoExc
                           /\ stack' = Advance(stk)
          [] how = "include_defs" ->
               /\ default_globals' = default_globals
               /\ ctxs' = merged
               /\ udrs' = us
               /\ modules' = [modules EXCEPT ![fr.ctx] = MergeGlobals(modules[inner], @)]
               /\ exc' = NoExc
               /\ stack' = Advance(stk)

\* _process_include(build_include, is_implicit_include) called by the top frame,
\* with cs the contexts as the caller left them.  A cache hit returns the cached
\* pair at once; a miss builds an IncludeContext and enters _process, whose
\* _set_build_env makes it the active context.
ProcessInclude(bi, is_implicit_include, cs) ==
    IF CacheKey(bi) \in DOMAIN include_cache
    THEN /\ FinishInclude(Top, bi, include_cache[CacheKey(bi)].ctx, cs, udrs, stack)
         /\ UNCHANGED << current_build_env, fn_build_env >>
    ELSE LET id == Len(cs) + 1
             cs1 == Append(cs, IncludeContext(bi.cell_name, bi.path, bi.label))
         IN  /\ ctxs' = cs1
             /\ modules' = Append(modules, <<>>)
             /\ stack' = Append(stack, Frame(id, bi.path, is_implicit_include))
             /\ current_build_env' = id
             /\ fn_build_env' = id
             /\ udrs' = UpdateFunctions(udrs, cs1, id)
             /\ exc' = NoExc
             /\ UNCHANGED default_globals


(***************************************************************************)
(* 4.H  Worker loop                                                        *)
(***************************************************************************)
\* main: a query line is read; process_with_diagnostics -> process ->
\* _process_build_file builds the BuildFileContext and _process installs it.
ReadQuery(q) ==
    /\ phase = "idle"
    /\ nread < MaxQueries
    /\ LET path == ProjectRoot \o q.buildFile
           rel == Relpath(path, ProjectRoot)
           base_path == SubSeq(rel, 1, Len(rel) - 1)
           id == Len(ctxs) + 1
           cs1 == Append(ctxs, BuildFileContext(base_path, path))
       IN  /\ ctxs' = cs1
           /\ modules' = Append(modules, <<>>)
           /\ stack' = << Frame(id, path, FALSE) >>
           /\ current_build_env' = id
           /\ fn_build_env' = id
           /\ udrs' = UpdateFunctions(udrs, cs1, id)
    /\ phase' = "running"
    /\ nread' = nread + 1
    /\ query' = q
    /\ reads' = {}
    /\ glob_calls' = {}
    /\ UNCHANGED << platform, cached_host_info, processed_build_file, produced >>
    /\ UNCHANGED << file_open, options, responses, include_cache, dicts, default_globals, exc, executed >>

\* main: readline returns "" (end of input): the loop ends.
EndOfInput ==
    /\ phase = "idle"
    /\ phase' = "eof"
    /\ UNCHANGED << file_open, options, glob_calls, platform, cached_host_info, processed_build_file, produced, nread, query, responses, include_cache, ctxs, dicts, udrs, modules,
                    default_globals, stack, current_build_env, fn_build_env, exc,
                    executed, reads >>

\* _process: one round of "for include in self._implicit_includes".
ImplicitInclude ==
    /\ Evaluating
    /\ Top.stage = "implicit"
    /\ Top.idx <= Len(ImplicitIncludes)
    /\ ProcessInclude(ResolveInclude(ImplicitIncludes[Top.idx]).bi, TRUE, ctxs)
    /\ UNCHANGED << file_open, options, glob_calls, platform, cached_host_info, processed_build_file, produced, phase, nread, query, responses, include_cache, dicts, executed, reads >>

\* _process: "if package_implicit_load: self._load_package_implicit(...)".
PackageImplicitLoad ==
    /\ Evaluating
    /\ Top.stage = "implicit"
    /\ Top.idx > Len(ImplicitIncludes)
    /\ HasPackageLoad(Top, ctxs)
    /\ LET r == GetLoadPath(query.packageImplicitLoad.load_path, ctxs[current_build_env])
           cs == IF r.warn
                 THEN EmitWarning(ctxs, current_build_env, "deprecated cell format", "load function")
                 ELSE ctxs
       IN  /\ produced' = IF r.warn /\ current_build_env # NoEnv
                          THEN ProducedOnceMore(produced,
                                   Diagnostic("deprecated cell format", "warning",
                                              "load function"))
                          ELSE produced
           /\ IF r.err # NoExc
              THEN /\ ctxs' = cs
                   /\ exc' = r.err
                   /\ UNCHANGED << udrs, modules, default_globals, stack, current_build_env,
                                   fn_build_env >>
              ELSE ProcessInclude(r.bi, TRUE, cs)
    /\ UNCHANGED << file_open, options, glob_calls, platform, cached_host_info, processed_build_file, phase, nread, query, responses, include_cache, dicts, executed, reads >>

\* _process: the module is built from the default globals, the file is read
\* (inside _wrap_file_access(wrap=False), which puts back what it found) and
\* exec(code) starts inside _build_file_sandboxing.
EnterBody ==
    /\ Evaluating
    /\ \/ Top.stage = "enter"
       \/ /\ Top.stage = "implicit"
          /\ Top.idx > Len(ImplicitIncludes)
          /\ ~HasPackageLoad(Top, ctxs)
    /\ modules' = [modules EXCEPT ![Top.ctx] = default_globals[Table(Top, ctxs)]]
    /\ stack' = [stack EXCEPT ![Len(stack)].stage = "body",
                              ![Len(stack)].saved_open = file_open]
    /\ file_open' = WrapFunForFileAccess(file_open, TRUE)
    /\ executed' = [executed EXCEPT ![Top.path] = @ + 1]
    /\ UNCHANGED << options, glob_calls, platform, cached_host_info, processed_build_file, produced, phase, nread, query, responses, include_cache, ctxs, dicts, udrs,
                    default_globals, current_build_env, fn_build_env, exc, reads >>

(***************************************************************************)
(* 4.F  Built-ins called by the executing code                             *)
(***************************************************************************)
\* A top-level assignment NAME = constant.
BindConst ==
    /\ At("bind")
    /\ modules' = [modules EXCEPT ![Top.ctx] = Bind(@, Stmt.sym, ConstVal(Stmt.val))]
    /\ stack' = Advance(stack)
    /\ UNCHANGED << file_open, options, glob_calls, platform, cached_host_info, processed_build_file, produced, phase, nread, query, responses, include_cache, ctxs, dicts, udrs,
                    default_globals, current_build_env, fn_build_env, exc, executed, reads >>

\* A top-level assignment NAME = OTHER.
BindAlias ==
    /\ At("alias")
    /\ LET v == Lookup(modules[Top.ctx], Stmt.other)
       IN  IF v = Unbound
           THEN RaiseIn(stack, Exc("NameError", "name is not defined")) /\ modules' = modules
           ELSE /\ modules' = [modules EXCEPT ![Top.ctx] = Bind(@, Stmt.sym, v)]
                /\ exc' = NoExc
                /\ stack' = Advance(stack)
    /\ UNCHANGED << file_open, options, glob_calls, platform, cached_host_info, processed_build_file, produced, phase, nread, query, responses, include_cache, ctxs, dicts,
                    udrs, default_globals, current_build_env, fn_build_env, executed,
                    reads >>

\* A package_name() that answers in any context (a fault the context-guard
\* property must detect).
GetPackageNameAnyContext(cs, env) ==
    [err |-> NoExc, value |-> StrVal(IF env = NoEnv THEN <<>> ELSE cs[env].base_path)]

\* _get_package_name(func_name, build_env): package_name and get_base_path.
GetPackageName(cs, env) ==
    IF env = NoEnv \/ cs[env].kind # "build"
    THEN [err |-> Exc("AssertionError", "Cannot use at the top-level of an included file"),
          value |-> Unbound]
    ELSE [err |-> NoExc, value |-> StrVal(cs[env].base_path)]

\* get_cell_name(build_env)
GetCellName(cs, env) ==
    IF env = NoEnv \/ cs[env].kind # "build"
    THEN [err |-> Exc("AssertionError", "Cannot use at the top-level of an included file"),
          value |-> Unbound]
    ELSE [err |-> NoExc, value |-> StrVal(<< cs[env].cell_name >>)]

\* repository_name(build_env): "@" + build_env.cell_name
RepositoryName(cs, env) ==
    IF env = NoEnv \/ cs[env].kind # "build"
    THEN [err |-> Exc("AssertionError", "Cannot use at the top-level of an included file"),
          value |-> Unbound]
    ELSE [err |-> NoExc, value |-> StrVal(<< "@", cs[env].cell_name >>)]

\* LazyBuildEnvPartial.invoke of a context built-in: func(build_env=self.build_env).
InvokeBuiltin(fn, cs, env) ==
    CASE fn \in { "package_name", "get_base_path" } -> GetPackageName(cs, env)
      [] fn = "get_cell_name" -> GetCellName(cs, env)
      [] fn = "repository_name" -> RepositoryName(cs, env)

\* SYM = FN(): the built-in through its partial, then the top-level assignment.
CallBuiltin ==
    /\ At("builtin")
    /\ LET r == InvokeBuiltin(Stmt.fn, ctxs, fn_build_env)
       IN  IF r.err # NoExc
           THEN RaiseIn(stack, r.err) /\ modules' = modules
           ELSE /\ modules' = [modules EXCEPT ![Top.ctx] = Bind(@, Stmt.sym, r.value)]
                /\ exc' = NoExc
                /\ stack' = Advance(stack)
    /\ UNCHANGED << file_open, options, glob_calls, platform, cached_host_info, processed_build_file, produced, phase, nread, query, responses, include_cache, ctxs, dicts,
                    udrs, default_globals, current_build_env, fn_build_env, executed,
                    reads >>

\* self._configs.get(key)
ConfigsGet(section, field) ==
    IF << section, field >> \in DOMAIN Configs THEN Configs[<< section, field >>] ELSE PyNone

\* BuildFileProcessor._read_config.  used_configs is a defaultdict(dict): a
\* section that is not yet a key gets a fresh dict.
ReadConfig ==
    /\ At("read_config")
    /\ LET env == current_build_env
           value == ConfigsGet(Stmt.section, Stmt.field)
           has == Stmt.section \in DOMAIN ctxs[env].used_configs
       IN  IF has
           THEN /\ dicts' = [dicts EXCEPT ![ctxs[env].used_configs[Stmt.section]] =
                                 DictSet(@, Stmt.field, value)]
                /\ ctxs' = ctxs
           ELSE /\ dicts' = Append(dicts, DictSet(EmptyDict, Stmt.field, value))
                /\ ctxs' = [ctxs EXCEPT ![env].used_configs =
                                DictSet(@, Stmt.section, Len(dicts) + 1)]
    /\ reads' = reads \cup { << Stmt.section, Stmt.field >> }
    /\ stack' = Advance(stack)
    /\ UNCHANGED << file_open, options, glob_calls, platform, cached_host_info, processed_build_file, produced, phase, nread, query, responses, include_cache, udrs, modules,
                    default_globals, current_build_env, fn_build_env, exc, executed >>

\* os.environ.get(name) under with_env_interceptors: _record_env_var.
GetEnv ==
    /\ At("getenv")
    /\ ctxs' = [ctxs EXCEPT ![current_build_env].used_env_vars =
                    DictSet(@, Stmt.name,
                            IF Stmt.name \in DOMAIN Environ THEN Environ[Stmt.name] ELSE PyNone)]
    /\ stack' = Advance(stack)
    /\ UNCHANGED << file_open, options, glob_calls, platform, cached_host_info, processed_build_file, produced, phase, nread, query, responses, include_cache, dicts, udrs, modules,
                    default_globals, current_build_env, fn_build_env, exc, executed, reads >>

\* A native rule function called through LazyBuildEnvPartial.invoke: add_rule.
NativeRule ==
    /\ At("rule")
    /\ LET r == AddRule(ctxs, [name |-> Stmt.name, type |-> NativeType("java_library"),
                               base_path |-> <<>>, attrs |-> EmptyDict], fn_build_env)
       IN  /\ ctxs' = r.ctxs
           /\ IF r.err # NoExc THEN RaiseIn(stack, r.err)
              ELSE exc' = NoExc /\ stack' = Advance(stack)
    /\ UNCHANGED << file_open, options, glob_calls, platform, cached_host_info, processed_build_file, produced, phase, nread, query, responses, include_cache, dicts, udrs, modules,
                    default_globals, current_build_env, fn_build_env, executed, reads >>

\* NAME = rule(...): the built-in rule(), then the top-level assignment.
DefRule ==
    /\ At("def_rule")
    /\ IF ~EnableUserDefinedRules
       THEN /\ RaiseIn(stack, Exc("NameError", "rule is not defined"))
            /\ UNCHANGED << udrs, modules >>
       ELSE IF fn_build_env = NoEnv \/ ctxs[fn_build_env].kind # "include"
       THEN /\ RaiseIn(stack, Exc("AssertionError", "rule() is only allowed in extension files"))
            /\ UNCHANGED << udrs, modules >>
       ELSE IF ValidateAttributesError(Stmt.attrs) # NoExc
       THEN /\ RaiseIn(stack, ValidateAttributesError(Stmt.attrs))
            /\ UNCHANGED << udrs, modules >>
       ELSE /\ udrs' = Append(udrs, UserDefinedRule(ctxs[fn_build_env].label, Stmt.attrs))
            /\ modules' = [modules EXCEPT ![Top.ctx] = Bind(@, Stmt.sym, UdrVal(Len(udrs) + 1))]
            /\ exc' = NoExc
            /\ stack' = Advance(stack)
    /\ UNCHANGED << file_open, options, glob_calls, platform, cached_host_info, processed_build_file, produced, phase, nread, query, responses, include_cache, ctxs, dicts,
                    default_globals, current_build_env, fn_build_env, executed, reads >>

\* UserDefinedRule.__call__(name=...), then add_rule(rule, self.build_env).
\* A __call__ without the test for unexpected kwargs (a fault the
\* keyword-validation property must detect).
CallUdrAnyKwargs(cs, udr, kwargs) ==
    IF udr.buck_type = NoType
    THEN [err |-> Exc("AssertionError", "set_name() was never called"), ctxs |-> cs]
    ELSE IF udr.build_env = NoEnv \/ cs[udr.build_env].kind # "build"
    THEN [err |-> Exc("ValueError", "may not be called from the top level of extension files"),
          ctxs |-> cs]
    ELSE IF \E k \in udr.required_attrs : k \notin DOMAIN kwargs
    THEN [err |-> Exc("ValueError", "Mandatory parameter was missing"), ctxs |-> cs]
    ELSE IF \E k \in DOMAIN udr.attrs : k \notin DOMAIN kwargs /\ udr.attrs[k].mandatory
    THEN [err |-> Exc("ValueError", "Mandatory parameter was missing"), ctxs |-> cs]
    ELSE [err |-> NoExc,
          ctxs |-> [cs EXCEPT ![udr.build_env].rules =
                        Append(@, [name |-> kwargs["name"], type |-> udr.buck_type,
                                   base_path |-> cs[udr.build_env].base_path,
                                   attrs |-> EmptyDict])]]

\* A __call__ that copies only what was passed and ignores the defaults (a
\* fault the explicit-attribute property must detect).
UdrRuleAttrsPassedOnly(udr, kwargs) ==
    [k \in ((DOMAIN kwargs \cap AllAttrs(udr)) \ { "name" }) |-> kwargs[k]]

\* The rule dict __call__ builds from its kwargs, "name" and "buck.type" aside:
\* the required and the passed optional parameters, then every explicit
\* attribute with the passed value or its default.
UdrRuleAttrs(udr, kwargs) ==
    [k \in ((udr.required_attrs \cup (udr.optional_attrs \cap DOMAIN kwargs)
              \cup DOMAIN udr.attrs) \ { "name" }) |->
        IF k \in DOMAIN kwargs THEN kwargs[k] ELSE udr.attrs[k].default]

CallUdr(cs, udr, kwargs) ==
    IF udr.buck_type = NoType
    THEN [err |-> Exc("AssertionError", "set_name() was never called"), ctxs |-> cs]
    ELSE IF udr.build_env = NoEnv \/ cs[udr.build_env].kind # "build"
    THEN [err |-> Exc("ValueError", "may not be called from the top level of extension files"),
          ctxs |-> cs]
    ELSE IF DOMAIN kwargs \ AllAttrs(udr) # {}
    THEN [err |-> Exc("ValueError", "Unexpected extra parameter(s)"), ctxs |-> cs]
    ELSE IF \E k \in udr.required_attrs : k \notin DOMAIN kwargs
    THEN [err |-> Exc("ValueError", "Mandatory parameter was missing"), ctxs |-> cs]
    ELSE IF \E k \in DOMAIN udr.attrs : k \notin DOMAIN kwargs /\ udr.attrs[k].mandatory
    THEN [err |-> Exc("ValueError", "Mandatory parameter was missing"), ctxs |-> cs]
    ELSE AddRule(cs, [name |-> kwargs["name"], type |-> udr.buck_type, base_path |-> <<>>,
                      attrs |-> UdrRuleAttrs(udr, kwargs)],
                 udr.build_env)

UdrCall ==
    /\ At("udr_call")
    /\ LET v == Lookup(modules[Top.ctx], Stmt.sym)
           r == IF v.t # "udr"
                THEN [err |-> Exc("NameError", "name is not defined"), ctxs |-> ctxs]
                ELSE CallUdr(ctxs, udrs[v.v], Stmt.kwargs)
       IN  /\ ctxs' = r.ctxs
           /\ IF r.err # NoExc THEN RaiseIn(stack, r.err)
              ELSE exc' = NoExc /\ stack' = Advance(stack)
    /\ UNCHANGED << file_open, options, glob_calls, platform, cached_host_info, processed_build_file, produced, phase, nread, query, responses, include_cache, dicts, udrs, modules,
                    default_globals, current_build_env, fn_build_env, executed, reads >>

\* BuildFileProcessor._load
Load ==
    /\ At("load")
    /\ IF Stmt.symbols = <<>> /\ Stmt.symbol_kwargs = <<>>
       THEN /\ RaiseIn(stack, Exc("AssertionError", "expected at least one symbol to load"))
            /\ UNCHANGED << ctxs, udrs, modules, default_globals, current_build_env,
                            fn_build_env >>
       ELSE LET r == GetLoadPath(Stmt.name, ctxs[current_build_env])
                cs == IF r.warn
                      THEN EmitWarning(ctxs, current_build_env, "deprecated cell format",
                                       "load function")
                      ELSE ctxs
            IN  IF r.err # NoExc
                THEN /\ ctxs' = cs
                     /\ RaiseIn(stack, r.err)
                     /\ UNCHANGED << udrs, modules, default_globals, current_build_env,
                                     fn_build_env >>
                ELSE ProcessInclude(r.bi, Top.implicit, cs)
    /\ produced' = IF (Stmt.symbols # <<>> \/ Stmt.symbol_kwargs # <<>>)
                      /\ GetLoadPath(Stmt.name, ctxs[current_build_env]).warn
                   THEN ProducedOnceMore(produced,
                            Diagnostic("deprecated cell format", "warning", "load function"))
                   ELSE produced
    /\ UNCHANGED << file_open, options, glob_calls, platform, cached_host_info, processed_build_file, phase, nread, query, responses, include_cache, dicts, executed, reads >>

\* BuildFileProcessor._include_defs (namespace=None)
IncludeDefs ==
    /\ At("include_defs")
    /\ LET r == ResolveInclude(Stmt.name)
       IN  IF r.err # NoExc
           THEN /\ RaiseIn(stack, r.err)
                /\ UNCHANGED << ctxs, udrs, modules, default_globals, current_build_env,
                                fn_build_env >>
           ELSE ProcessInclude(r.bi, Top.implicit, ctxs)
    /\ UNCHANGED << file_open, options, glob_calls, platform, cached_host_info, processed_build_file, produced, phase, nread, query, responses, include_cache, dicts, executed, reads >>

\* os.path.abspath(filename) as text.
RECURSIVE PathStr(_)
PathStr(path) == IF path = <<>> THEN "" ELSE "/" \o Head(path) \o PathStr(Tail(path))

\* _called_from_project_file: the file of the calling frame lies under the
\* project root.
CalledFromProjectFile(file) ==
    Len(file) >= Len(ProjectRoot) /\ SubSeq(file, 1, Len(ProjectRoot)) = ProjectRoot

\* A wrapper that warns about every open, tracked or not (a fault the
\* file-access property must detect).
FileAccessWrapperWarnAlways(cs, env, file, path) ==
    IF CalledFromProjectFile(file)
    THEN EmitWarning(cs, env, "Access to a non-tracked file detected! " \o PathStr(path),
                     "sandboxing")
    ELSE cs

\* _file_access_wrapper.wrapper, up to its call of real: the warning for a
\* path that is not in the includes of the current context.
FileAccessWrapper(cs, env, file, path) ==
    IF CalledFromProjectFile(file) /\ path \notin cs[env].includes
    THEN EmitWarning(cs, env, "Access to a non-tracked file detected! " \o PathStr(path),
                     "sandboxing")
    ELSE cs

\* builtins.open(path) as it is installed: each wrapper around the original
\* runs and calls the function it wraps.
RECURSIVE CallOpen(_, _, _, _, _)
CallOpen(open, cs, env, file, path) ==
    IF open = OrigOpen THEN cs
    ELSE CallOpen(open - 1, FileAccessWrapper(cs, env, file, path), env, file, path)

\* SYM = open(path): builtins.open, then the top-level assignment.
Open ==
    /\ At("open")
    /\ ctxs' = CallOpen(file_open, ctxs, current_build_env, Top.path, Stmt.path)
    /\ produced' = ProducedAll(produced,
                               SubSeq(ctxs'[current_build_env].diagnostics,
                                      Len(ctxs[current_build_env].diagnostics) + 1,
                                      Len(ctxs'[current_build_env].diagnostics)))
    /\ modules' = [modules EXCEPT ![Top.ctx] = Bind(@, Stmt.sym, FileVal(Stmt.path))]
    /\ exc' = NoExc
    /\ stack' = Advance(stack)
    /\ UNCHANGED << file_open, options, glob_calls, platform, cached_host_info, processed_build_file, phase, nread, query, responses, include_cache, dicts,
                    udrs, default_globals, current_build_env, fn_build_env, executed,
                    reads >>

\* BuildFileProcessor._add_build_file_dep
AddBuildFileDep ==
    /\ At("add_build_file_dep")
    /\ LET r == ResolveInclude(Stmt.name)
       IN  IF r.err # NoExc
           THEN ctxs' = ctxs /\ RaiseIn(stack, r.err)
           ELSE /\ ctxs' = AddInclude(ctxs, current_build_env, r.bi.path)
                /\ exc' = NoExc
                /\ stack' = Advance(stack)
    /\ UNCHANGED << file_open, options, glob_calls, platform, cached_host_info, processed_build_file, produced, phase, nread, query, responses, include_cache, dicts, udrs, modules,
                    default_globals, current_build_env, fn_build_env, executed, reads >>

\* The files of a package directory a pattern can match, and the position of
\* each name in lexicographic order.
GlobFiles == { "a", "b" }
Rank == [a |-> 1, b |-> 2]
\* What the patterns of one call may match: nothing, or both files.
MatchSets == { {}, GlobFiles }

\* sorted(set): the names of S in lexicographic order, each once.
RECURSIVE SortedList(_)
SortedList(S) ==
    IF S = {} THEN <<>>
    ELSE LET m == CHOOSE x \in S : \A y \in S : Rank[x] <= Rank[y]
         IN  << m >> \o SortedList(S \ { m })

\* A walker that returns the matches last name first (a fault the
\* sorted-result property must detect).
GlobInternalUnsorted(matched) ==
    LET l == SortedList(matched) IN [i \in 1..Len(l) |-> l[Len(l) + 1 - i]]

\* glob_internal: the filesystem walker, given the files its patterns match.
GlobInternal(matched) == SortedList(matched)
\* glob_watchman: the watcher backend, given the files its query matches.
GlobWatchman(matched) == SortedList(matched)

\* A glob without the empty-result assertion (a fault the empty-glob policy
\* property must detect).
CheckEmptyGlobNever(allow_empty_globs, results) == NoExc

\* glob: assert build_env.allow_empty_globs or results
CheckEmptyGlob(allow_empty_globs, results) ==
    IF allow_empty_globs \/ results # <<>> THEN NoExc
    ELSE Exc("AssertionError", "glob returned no results")

\* A pattern test that finds "**" in any part (a fault the recursive-glob
\* property must detect).
RecursiveGlobAnywhere(pattern) ==
    \E k \in 1..(Len(pattern) - 1) : pattern[k] = "**"

\* _RECURSIVE_GLOB_PATTERN.match(pattern), "^(\*/)*\*\*/": zero or more parts
\* "*", then a part "**", then a "/".
RecursiveGlobPattern(pattern) ==
    \E k \in 1..(Len(pattern) - 1) :
        /\ pattern[k] = "**"
        /\ \A j \in 1..(k - 1) : pattern[j] = "*"

\* glob(includes, build_env=env) when the backends match the files in
\* matched; a list is [none |-> FALSE, list |-> l] and None has none = TRUE.
\* called: the backends the call reaches.
GlobResult(cs, env, includes, matched) ==
    IF env = NoEnv \/ cs[env].kind # "build"
    THEN [err |-> Exc("AssertionError", "Cannot use glob() in an included file"),
          value |-> <<>>, called |-> {}]
    ELSE IF /\ Dirname(cs[env].path) = ProjectRoot
            /\ \E i \in 1..Len(includes) : RecursiveGlobPattern(includes[i])
    THEN [err |-> Exc("BuildFileFailError",
                      "Recursive globs are prohibited at top-level directory"),
          value |-> <<>>, called |-> {}]
    ELSE LET first == IF includes = <<>> THEN [none |-> FALSE, list |-> <<>>]
                      ELSE IF options.use_watchman_glob
                      THEN [none |-> FALSE, list |-> GlobWatchman(matched)]
                      ELSE [none |-> TRUE, list |-> <<>>]
             results == IF first.none THEN GlobInternal(matched) ELSE first.list
         IN  [err |-> CheckEmptyGlob(options.allow_empty_globs, results),
              value |-> results,
              called |-> IF includes = <<>> THEN {}
                         ELSE IF options.use_watchman_glob THEN { "glob_watchman" }
                         ELSE { "glob_internal" }]

\* The outcomes of the watcher query: it answers or raises WatchmanError.
WatcherOutcomes == { "ok", "WatchmanError" }

\* SYM = glob(includes): BuildFileProcessor._glob through the partial's
\* build_env, then the top-level assignment.  The watcher is queried only for
\* non-empty includes that pass the recursive-glob check, in a build-file
\* context with a watchman client.
Glob ==
    /\ At("glob")
    /\ \E outcome \in WatcherOutcomes, matched \in MatchSets :
          LET r == GlobResult(ctxs, fn_build_env, Stmt.includes, matched)
          IN  /\ glob_calls' = glob_calls \cup r.called
              /\ UNCHANGED << platform, cached_host_info, processed_build_file, produced >>
              /\ IF "glob_watchman" \in r.called /\ outcome = "WatchmanError"
                 THEN RaiseIn(stack, Exc("WatchmanError", "watchman query timed out"))
                      /\ modules' = modules
                 ELSE IF r.err # NoExc
                 THEN RaiseIn(stack, r.err) /\ modules' = modules
                 ELSE /\ modules' = [modules EXCEPT ![Top.ctx] =
                                         Bind(@, Stmt.sym, ListVal(r.value))]
                      /\ exc' = NoExc
                      /\ stack' = Advance(stack)
    /\ UNCHANGED << file_open, options, phase, nread, query, responses, include_cache, ctxs,
                    dicts, udrs, default_globals, current_build_env, fn_build_env,
                    executed, reads >>

\* fail(message)
Fail ==
    /\ At("fail")
    /\ RaiseIn(stack, Exc("BuildFileFailError", "fail"))
    /\ UNCHANGED << file_open, options, glob_calls, platform, cached_host_info, processed_build_file, produced, phase, nread, query, responses, include_cache, ctxs, dicts, udrs,
                    modules, default_globals, current_build_env, fn_build_env, executed,
                    reads >>

\* sys.exit() in a file: SystemExit.
Exit ==
    /\ At("exit")
    /\ RaiseIn(stack, Exc("SystemExit", "exit"))
    /\ UNCHANGED << file_open, options, glob_calls, platform, cached_host_info, processed_build_file, produced, phase, nread, query, responses, include_cache, ctxs, dicts, udrs,
                    modules, default_globals, current_build_env, fn_build_env, executed,
                    reads >>


(***************************************************************************)
(* Returning from _process                                                 *)
(***************************************************************************)
\* The code of an include ran to its end: _set_build_env restores the caller's
\* context, _process_include names the UDRs defined in the file, fills the
\* cache and returns to the caller's pending operation.
ReturnFromInclude ==
    /\ AtEnd
    /\ Len(stack) > 1
    /\ LET callee == Top
           stk == SubSeq(stack, 1, Len(stack) - 1)
           caller == stk[Len(stk)]
           env == ctxs[callee.ctx]
           us1 == UpdateFunctions(udrs, ctxs, caller.ctx)
           scan == IF EnableUserDefinedRules
                   THEN ScanUserRules(modules[callee.ctx], env.label,
                                      [udrs |-> us1, found |-> {}], 1)
                   ELSE [udrs |-> us1, found |-> {}]
           cs1 == [ctxs EXCEPT ![callee.ctx].user_rules = @ \cup scan.found]
           bi == BuildInclude(env.cell_name, env.label, env.path)
       IN  /\ current_build_env' = caller.ctx
           /\ fn_build_env' = caller.ctx
           /\ include_cache' = CachePut(include_cache, bi, callee.ctx)
           /\ FinishInclude(caller, bi, callee.ctx, cs1, scan.udrs, stk)
           /\ file_open' = callee.saved_open
    /\ UNCHANGED << options, glob_calls, platform, cached_host_info, processed_build_file, produced, phase, nread, query, responses, dicts, executed, reads >>

\* One entry of the values list of a response.
NoRule == [name |-> "", type |-> NoType, base_path |-> <<>>, attrs |-> EmptyDict]
ValueEntry(key, rule, includes, configs, env) ==
    [key |-> key, rule |-> rule, includes |-> includes, configs |-> configs, env |-> env]
RuleEntry(rule) == ValueEntry("rule", rule, <<>>, EmptyDict, EmptyDict)

\* A values list that starts with the meta entries (a fault the values-order
\* property must detect).
ValuesMetaFirst(env, path, ds) ==
    << ValueEntry("__includes", NoRule, << path, env.includes >>, EmptyDict, EmptyDict),
       ValueEntry("__configs", NoRule, <<>>,
                  [sec \in DOMAIN env.used_configs |-> ds[env.used_configs[sec]]],
                  EmptyDict),
       ValueEntry("__env", NoRule, <<>>, EmptyDict, env.used_env_vars) >>
    \o [i \in 1..Len(env.rules) |-> RuleEntry(env.rules[i])]

\* BuildFileProcessor.process, after _process_build_file: the rules in insertion
\* order, then __includes ([path] + sorted(includes), the sorted part as a set),
\* __configs and __env, serialised as they are at this moment.
Values(env, path, ds) ==
    [i \in 1..Len(env.rules) |-> RuleEntry(env.rules[i])]
    \o << ValueEntry("__includes", NoRule, << path, env.includes >>, EmptyDict, EmptyDict),
          ValueEntry("__configs", NoRule, <<>>,
                     [sec \in DOMAIN env.used_configs |-> ds[env.used_configs[sec]]],
                     EmptyDict),
          ValueEntry("__env", NoRule, <<>>, EmptyDict, env.used_env_vars) >>

Response(q, values, diagnostics) ==
    [query |-> q, values |-> values, diagnostics |-> diagnostics]

\* BuckJSONEncoder().encode(result) returns: no value of a rule record is an
\* object without a JSON encoding.
JsonEncodable(values) ==
    \A i \in 1..Len(values) :
        \A k \in DOMAIN values[i].rule.attrs : values[i].rule.attrs[k] # NotJson

\* An encode_result whose second attempt carries the encoding error alone (a
\* fault the encoding-fallback property must detect).
EncodeResultErrorOnly(values, diagnostics) ==
    IF JsonEncodable(values)
    THEN [values |-> values, diagnostics |-> diagnostics]
    ELSE [values |-> <<>>,
          diagnostics |-> << Diagnostic("is not JSON serializable", "fatal", "parse") >>]

\* encode_result: the result as it is, or, when encoding it raises, the result
\* without the values and with one more diagnostic, fatal and of source "parse".
EncodeResult(values, diagnostics) ==
    IF JsonEncodable(values)
    THEN [values |-> values, diagnostics |-> diagnostics]
    ELSE [values |-> <<>>,
          diagnostics |-> Append(diagnostics,
                                 Diagnostic("is not JSON serializable", "fatal", "parse"))]

\* java_process_send_result: what is written to the parent for query q.
JavaProcessSendResult(q, values, diagnostics) ==
    LET data == EncodeResult(values, diagnostics)
    IN  Response(q, data.values, data.diagnostics)

\* The build file ran to its end: process() collects the values and the
\* context's diagnostics, process_with_diagnostics sends the response and main
\* goes back to waiting for a query.
FinishQuery ==
    /\ AtEnd
    /\ Len(stack) = 1
    /\ responses' = Append(responses,
           JavaProcessSendResult(query, Values(ctxs[Top.ctx], query.buildFile, dicts),
                                 ctxs[Top.ctx].diagnostics))
    /\ stack' = <<>>
    /\ file_open' = Top.saved_open
    /\ current_build_env' = NoEnv
    /\ fn_build_env' = NoEnv
    /\ phase' = "idle"
    /\ processed_build_file' = Append(processed_build_file,
                                      [buildFile |-> query.buildFile, duration |-> Tick])
    /\ UNCHANGED << options, glob_calls, platform, cached_host_info, produced, nread, query, include_cache, ctxs, dicts, udrs, modules,
                    default_globals, exc, executed, reads >>

\* A _set_build_env without its finally block: the context of the _process
\* call the exception leaves stays the current one (a fault the context-stack
\* property must detect).
OldEnvNotRestored(stk) == current_build_env

\* _set_build_env, old_env: the context that was current when the _process
\* call on top of the calls stk was entered.
OldEnv(stk) == IF stk = <<>> THEN NoEnv ELSE stk[Len(stk)].ctx

\* A _process_include that fills the cache in a finally block, whether _process
\* raised or not (a fault the cache-after-success property must detect).
CacheAfterRaiseFilled(cache, cs, fr) ==
    IF cs[fr.ctx].kind = "include"
    THEN CachePut(cache, BuildInclude(cs[fr.ctx].cell_name, cs[fr.ctx].label, fr.path), fr.ctx)
    ELSE cache

\* _process_include when self._process raises: the exception passes through
\* it, so the assignment to _include_cache after the call is not reached.
CacheAfterRaise(cache, cs, fr) == cache

\* An exception leaves one _process call: the finally of the sandboxing scope
\* puts back the open it found, the finally of _set_build_env restores the
\* caller's context; the caller's own try/except may catch it.
Unwind ==
    /\ phase = "running"
    /\ exc # NoExc
    /\ stack # <<>>
    /\ LET stk == SubSeq(stack, 1, Len(stack) - 1)
           old == OldEnv(stk)
       IN  /\ current_build_env' = old
           /\ fn_build_env' = old
           /\ udrs' = UpdateFunctions(udrs, ctxs, old)
           /\ file_open' = IF Top.stage = "body" THEN Top.saved_open ELSE file_open
           /\ IF stk # <<>> THEN RaiseIn(stk, exc) ELSE exc' = exc /\ stack' = stk
    /\ include_cache' = CacheAfterRaise(include_cache, ctxs, Top)
    /\ UNCHANGED << options, glob_calls, platform, cached_host_info, processed_build_file, produced, phase, nread, query, responses, ctxs, dicts, modules,
                    default_globals, executed, reads >>

\* process_with_diagnostics, "if e is not SystemExit": e is an exception
\* instance, never the class itself, so the test holds for every exception.
IsNotSystemExit(e) == TRUE

\* A handler that reports every exception with source "parse" (a fault the
\* aborted-response property must detect).
FatalDiagnosticsParseOnly(e) == << Diagnostic(e.msg, "fatal", "parse") >>

\* process_with_diagnostics: the diagnostic built in "except BaseException".
FatalDiagnostics(e) ==
    IF IsNotSystemExit(e)
    THEN << Diagnostic(e.msg, "fatal",
                       IF e.type = "WatchmanError" THEN "watchman" ELSE "parse") >>
    ELSE <<>>

\* The values and diagnostics process_with_diagnostics sends from its finally
\* block when process() raised: its own locals, values = [] and diagnostics = []
\* plus the fatal one (process() extends diagnostics only when it returns).
AbortedResponse(q, e) == JavaProcessSendResult(q, <<>>, FatalDiagnostics(e))

\* A process_with_diagnostics without its finally block: the exception leaves
\* and nothing is sent (a fault the one-response-per-query property must detect).
CrashWithoutResponse ==
    /\ phase = "running"
    /\ exc # NoExc
    /\ stack = <<>>
    /\ phase' = "crashed"
    /\ UNCHANGED << file_open, options, glob_calls, platform, cached_host_info, processed_build_file, produced, nread, query, responses, include_cache, ctxs, dicts, udrs, modules,
                    default_globals, stack, current_build_env, fn_build_env, exc,
                    executed, reads >>

\* A process_with_diagnostics that swallows the exception after sending the
\* response, so that main's loop goes on (a fault the worker-lifetime property
\* must detect).
SendFatalAndContinue ==
    /\ phase = "running"
    /\ exc # NoExc
    /\ stack = <<>>
    /\ responses' = Append(responses, AbortedResponse(query, exc))
    /\ phase' = "idle"
    /\ exc' = NoExc
    /\ UNCHANGED << file_open, options, glob_calls, platform, cached_host_info, processed_build_file, produced, nread, query, include_cache, ctxs, dicts, udrs, modules,
                    default_globals, stack, current_build_env, fn_build_env,
                    executed, reads >>

\* The exception reaches process_with_diagnostics: the response is sent from
\* the finally block and the exception is raised again, out of main's loop.
SendFatal ==
    /\ phase = "running"
    /\ exc # NoExc
    /\ stack = <<>>
    /\ responses' = Append(responses, AbortedResponse(query, exc))
    /\ phase' = "crashed"
    /\ UNCHANGED << file_open, options, glob_calls, platform, cached_host_info, processed_build_file, produced, nread, query, include_cache, ctxs, dicts, udrs, modules,
                    default_globals, stack, current_build_env, fn_build_env, exc,
                    executed, reads >>

Next ==
    \/ \E q \in Queries : ReadQuery(q)
    \/ EndOfInput
    \/ ImplicitInclude
    \/ PackageImplicitLoad
    \/ EnterBody
    \/ BindConst
    \/ BindAlias
    \/ CallBuiltin
    \/ ReadConfig
    \/ GetEnv
    \/ NativeRule
    \/ DefRule
    \/ UdrCall
    \/ Load
    \/ IncludeDefs
    \/ AddBuildFileDep
    \/ Open
    \/ Glob
    \/ Fail
    \/ Exit
    \/ ReturnFromInclude
    \/ FinishQuery
    \/ Unwind
    \/ SendFatal

Spec == Init /\ [][Next]_vars

\* The module body on every platform of Systems x Machines.
HostInfoInit ==
    /\ EngineInit
    /\ options \in [use_watchman_glob : BOOLEAN, allow_empty_globs : BOOLEAN,
                    profile : { FALSE }]
    /\ platform \in Systems \X Machines
    /\ cached_host_info = NoHostInfo
HostInfoNext == ImportModule
HostInfoSpec == HostInfoInit /\ [][HostInfoNext]_vars


(***************************************************************************)
(* report_profile                                                          *)
(***************************************************************************)
\* Lines main's loop reads in the profiling runs, and report_profile queries
\* among them.
MaxLines == 12
MaxReports == 1
\* Durations process_with_diagnostics returns, in ticks.
Durations == { 1, 2 }

\* The query {"command": "report_profile"}.
ReportProfileQuery == [command |-> "report_profile"]
IsReport(r) == DOMAIN r.query = { "command" }

\* list.sort(key=duration, reverse=True) sorts in ascending order here (a
\* fault the profile-report property must detect).
RECURSIVE SortByDurationAscending(_)
SortByDurationAscending(l) ==
    IF l = <<>> THEN <<>>
    ELSE LET sorted == SortByDurationAscending(SubSeq(l, 1, Len(l) - 1))
             e == l[Len(l)]
             k == Cardinality({ i \in 1..Len(sorted) : sorted[i].duration <= e.duration })
         IN  SubSeq(sorted, 1, k) \o << e >> \o SubSeq(sorted, k + 1, Len(sorted))

\* processed_build_file.sort(key=duration, reverse=True): descending and
\* stable (entries of equal duration keep their order).
RECURSIVE SortByDuration(_)
SortByDuration(l) ==
    IF l = <<>> THEN <<>>
    ELSE LET sorted == SortByDuration(SubSeq(l, 1, Len(l) - 1))
             e == l[Len(l)]
             k == Cardinality({ i \in 1..Len(sorted) : sorted[i].duration >= e.duration })
         IN  SubSeq(sorted, 1, k) \o << e >> \o SubSeq(sorted, k + 1, Len(sorted))

\* report_profile: the list as the in-place sort leaves it, and the response.
\* The report names the number of parsed files and the files it shows.
ReportProfileResult(profile, processed) ==
    IF profile
    THEN LET sorted == SortByDuration(processed)
             shown == IF Len(sorted) > 10 THEN SubSeq(sorted, 1, 10) ELSE sorted
         IN  [processed |-> sorted,
              response |-> [query |-> ReportProfileQuery, values |-> <<>>,
                            diagnostics |-> <<>>,
                            profile |-> [parsed |-> Len(processed), files |-> shown]]]
    ELSE [processed |-> processed,
          response |-> Response(ReportProfileQuery, <<>>, <<>>)]

\* main's loop, the branch of a report_profile query.
ReportProfile ==
    /\ phase = "idle"
    /\ nread < MaxLines
    /\ Cardinality({ i \in 1..Len(responses) : IsReport(responses[i]) }) < MaxReports
    /\ LET r == ReportProfileResult(options.profile, processed_build_file)
       IN  /\ responses' = Append(responses, r.response)
           /\ processed_build_file' = r.processed
    /\ nread' = nread + 1
    /\ query' = ReportProfileQuery
    /\ UNCHANGED << phase, include_cache, ctxs, dicts, udrs, modules, default_globals,
                    stack, current_build_env, fn_build_env, exc, executed, reads,
                    file_open, options, glob_calls, platform, cached_host_info, produced >>

\* main's loop, the branch of a build file query, as one step: the call of
\* process_with_diagnostics returns after d ticks, having sent its response.
ProcessWithDiagnosticsReturns(q, d) ==
    /\ phase = "idle"
    /\ nread < MaxLines
    /\ nread' = nread + 1
    /\ query' = q
    /\ responses' = Append(responses,
           JavaProcessSendResult(q, Values(BuildFileContext(<<>>, ProjectRoot \o q.buildFile),
                                           q.buildFile, dicts), <<>>))
    /\ processed_build_file' = Append(processed_build_file,
                                      [buildFile |-> q.buildFile, duration |-> d])
    /\ UNCHANGED << phase, include_cache, ctxs, dicts, udrs, modules, default_globals,
                    stack, current_build_env, fn_build_env, exc, executed, reads,
                    file_open, options, glob_calls, platform, cached_host_info, produced >>

\* The worker with or without --profile, on build files that evaluate without
\* error.
ProfileInit ==
    /\ EngineInit
    /\ options \in [use_watchman_glob : { FALSE }, allow_empty_globs : { FALSE },
                    profile : BOOLEAN]
    /\ platform = << << "L", "i", "n", "u", "x" >>, << "x", "8", "6", "_", "6", "4" >> >>
    /\ cached_host_info = HostInfo(platform[1], platform[2])
ProfileNext ==
    \/ \E d \in Durations : ProcessWithDiagnosticsReturns(RootQuery, d)
    \/ ReportProfile
ProfileSpec == ProfileInit /\ [][ProfileNext]_vars


(***************************************************************************)
(* Properties                                                              *)
(***************************************************************************)
\* The BuildFileContext of the query being processed (the newest one).
QueryContext ==
    CHOOSE c \in 1..Len(ctxs) :
        ctxs[c].kind = "build" /\ \A d \in (c + 1)..Len(ctxs) : ctxs[d].kind # "build"

\* The build file ran to its end: process() is about to collect its values.
Finished == AtEnd /\ Len(stack) = 1

\* A response that carries values (the three meta entries are always there).
Succeeded(r) == r.values # <<>>

\* C1: determinism across a worker lifetime.  Two successful evaluations of the
\* same build file by one worker (same files, configs and environment, any
\* other queries in between) answer with equal values: the same rules in the
\* same order, the same __includes, __configs and __env.
C1_Determinism ==
    \A i, j \in 1..Len(responses) :
        (/\ responses[i].query = responses[j].query
         /\ Succeeded(responses[i])
         /\ Succeeded(responses[j]))
        => responses[i].values = responses[j].values

\* C2: when the evaluation of a build file finishes, every (section, field)
\* that read_config was called with during the evaluation, by the build file
\* or by a file executed on its behalf, is present in the build file's
\* used_configs with the configured value (or the "absent" sentinel),
\* whatever the order of the read_config and load / include_defs calls.
C2_UsedConfigsRecordEveryRead ==
    Finished =>
        \A sf \in reads :
            LET uc == ctxs[Top.ctx].used_configs
            IN  /\ sf[1] \in DOMAIN uc
                /\ sf[2] \in DOMAIN dicts[uc[sf[1]]]
                /\ dicts[uc[sf[1]]][sf[2]] = ConfigsGet(sf[1], sf[2])

\* The files a file reaches: the targets of its load, include_defs and
\* add_build_file_dep calls and of the implicit includes, and what the loaded
\* and included files reach in turn.
RECURSIVE ReachedFrom(_, _, _)
ReachedFrom(cell, path, is_implicit_include) ==
    LET env == [cell_name |-> cell, path |-> path]
        Via(bi, implicit) == { bi.path } \cup ReachedFrom(bi.cell_name, bi.path, implicit)
        OfStmt(st) ==
            CASE st.op = "load" -> Via(GetLoadPath(st.name, env).bi, is_implicit_include)
              [] st.op = "include_defs" -> Via(ResolveInclude(st.name).bi, is_implicit_include)
              [] st.op = "add_build_file_dep" -> { ResolveInclude(st.name).bi.path }
              [] OTHER -> {}
    IN  UNION { OfStmt(Code(path)[i]) : i \in 1..Len(Code(path)) }
        \cup (IF is_implicit_include THEN {}
              ELSE UNION { Via(ResolveInclude(ImplicitIncludes[i]).bi, TRUE) :
                           i \in 1..Len(ImplicitIncludes) })

\* The files the build file of query q reaches, its package implicit load included.
Reached(q) ==
    LET path == ProjectRoot \o q.buildFile
        env == [cell_name |-> CellName, path |-> path]
    IN  ReachedFrom(CellName, path, FALSE)
        \cup (IF q.packageImplicitLoad.has
              THEN LET bi == GetLoadPath(q.packageImplicitLoad.load_path, env).bi
                   IN  { bi.path } \cup ReachedFrom(bi.cell_name, bi.path, TRUE)
              ELSE {})

\* C3: when the evaluation of a build file finishes successfully, its includes
\* set contains the absolute path of every file reached through include_defs,
\* load, an implicit include, a package implicit load or add_build_file_dep,
\* directly or transitively, files served from the include cache included.
C3_IncludesTransitiveClosure ==
    Finished => Reached(query) \subseteq ctxs[Top.ctx].includes


\* Whether the include cache holds a processed context for the file at path p.
Cached(p) == \E k \in DOMAIN include_cache : ctxs[include_cache[k].ctx].path = p
CachedContext(p) ==
    include_cache[CHOOSE k \in DOMAIN include_cache : ctxs[include_cache[k].ctx].path = p].ctx

\* The absolute path the load / include_defs statement at the top frame names.
IncludeTarget ==
    IF Stmt.op = "load" THEN GetLoadPath(Stmt.name, ctxs[current_build_env]).bi.path
    ELSE ResolveInclude(Stmt.name).bi.path

\* C4: once an extension file has been processed successfully (its pair is in
\* the include cache), the pair stays the same object for the worker lifetime,
\* the file's code is not executed again, and a later load or include_defs of
\* the same absolute path, under whatever label spelling and in whatever
\* query, is answered with the cached context: no new context is built, no
\* _process call is entered and the caller merges the cached context.
C4_IncludeCacheIdentity ==
    [][ /\ \A k \in DOMAIN include_cache :
              /\ k \in DOMAIN include_cache'
              /\ include_cache'[k] = include_cache[k]
        /\ \A p \in Files : Cached(p) => executed'[p] = executed[p]
        /\ ((At("load") \/ At("include_defs")) /\ Cached(IncludeTarget))
           => /\ Len(ctxs') = Len(ctxs)
              /\ Len(stack') = Len(stack)
              /\ exc' = NoExc
              /\ ctxs[CachedContext(IncludeTarget)].includes \cup { IncludeTarget }
                     \subseteq ctxs'[Top.ctx].includes
              /\ ctxs[CachedContext(IncludeTarget)].user_rules
                     \subseteq ctxs'[Top.ctx].user_rules
      ]_vars

\* C4, its case: two build files of different queries have merged x, one spelling
\* it through load and one through include_defs, and x's code ran once.
C4_Witness ==
    /\ executed[PathX] = 1
    /\ \E c, d \in 1..Len(ctxs) :
          /\ ctxs[c].path = BuildPath("p1") /\ PathX \in ctxs[c].includes
          /\ ctxs[d].path = BuildPath("p4") /\ PathX \in ctxs[d].includes

\* Whether the build file of frame fr bound symbol sym with one of its own
\* load() calls before the statement it is at.
BroughtByLoad(fr, sym) ==
    \E i \in 1..(fr.pc - 1) :
        LET st == Code(fr.path)[i]
        IN  /\ st.op = "load"
            /\ \/ \E j \in 1..Len(st.symbols) : st.symbols[j] = sym
               \/ \E j \in 1..Len(st.symbol_kwargs) : st.symbol_kwargs[j].k = sym

\* The kwargs pass the parameter checks of UserDefinedRule.__call__.
AcceptedKwargs(udr, kwargs) ==
    /\ DOMAIN kwargs \subseteq AllAttrs(udr)
    /\ udr.required_attrs \subseteq DOMAIN kwargs
    /\ \A k \in DOMAIN udr.attrs : udr.attrs[k].mandatory => k \in DOMAIN kwargs

\* A build file is about to call, with parameters the rule accepts, a UDR
\* that one of its load() calls bound.
CallsLoadedUdr ==
    /\ At("udr_call")
    /\ ctxs[Top.ctx].kind = "build"
    /\ BroughtByLoad(Top, Stmt.sym)
    /\ LET v == Lookup(modules[Top.ctx], Stmt.sym)
       IN  v.t = "udr" => AcceptedKwargs(udrs[v.v], Stmt.kwargs)

\* C5: a UDR defined in an extension and brought into build file B with load(),
\* when called from B with parameters it accepts, has build_env = B's context, and the call inserts its
\* record (buck.type of the defining extension, base path of B) into B's rules
\* and into no other context's rules, unless add_rule refuses the name (no
\* string, or a duplicate); in every query of the worker lifetime,
\* the extension cached by an earlier query or reached through another
\* extension included.
C5_LoadedUdrLandsInCaller ==
    [][ CallsLoadedUdr =>
          LET v == Lookup(modules[Top.ctx], Stmt.sym)
              B == Top.ctx
          IN  /\ v.t = "udr"
              /\ udrs[v.v].build_env = B
              /\ \/ /\ IsString(Stmt.name)
                    /\ Stmt.name \notin RuleNames(ctxs[B].rules)
                    /\ exc' = NoExc
                    /\ ctxs'[B].rules =
                          Append(ctxs[B].rules,
                                 [name |-> Stmt.name, type |-> udrs[v.v].buck_type,
                                  base_path |-> ctxs[B].base_path,
                                  attrs |-> UdrRuleAttrs(udrs[v.v], Stmt.kwargs)])
                 \/ /\ ~IsString(Stmt.name) \/ Stmt.name \in RuleNames(ctxs[B].rules)
                    /\ ctxs'[B].rules = ctxs[B].rules
              /\ \A c \in 1..Len(ctxs) : c # B => ctxs'[c].rules = ctxs[c].rules
      ]_vars

\* C5, its case: in a second or later query, p2 has called R, which it loaded
\* from y, which loaded it from x, and the record is in p2's rules.
C5_Witness ==
    /\ nread >= 2
    /\ stack # <<>>
    /\ Top.path = BuildPath("p2")
    /\ Top.pc = 3
    /\ \E i \in 1..Len(ctxs[Top.ctx].rules) :
          /\ ctxs[Top.ctx].rules[i].name = "b"
          /\ ctxs[Top.ctx].rules[i].type.name = "R"
    /\ executed[PathX] = 1
    /\ \E r \in 1..Len(responses) : PathX \in responses[r].values[Len(responses[r].values) - 2].includes[2]

\* C6: whenever code of a file is executing under active context C, every UDR
\* in C.user_rules has build_env = C, whichever path merged it into C (load,
\* include_defs, an implicit include or a package implicit load).
C6_UserRulesPointAtActiveContext ==
    InBody =>
        \A u \in ctxs[current_build_env].user_rules :
            udrs[u].build_env = current_build_env


\* The context the rule call at the top frame inserts into: the built-ins'
\* build_env for a native rule, the factory's build_env for a UDR.
InsertTarget ==
    IF Stmt.op = "rule" THEN fn_build_env
    ELSE LET v == Lookup(modules[Top.ctx], Stmt.sym)
         IN  IF v.t = "udr" /\ udrs[v.v].buck_type # NoType
             THEN udrs[v.v].build_env ELSE NoEnv

\* A rule call whose name is already a key of the rules of the build-file
\* context it inserts into.
InsertsDuplicate ==
    /\ At("rule") \/ At("udr_call")
    /\ InsertTarget # NoEnv
    /\ ctxs[InsertTarget].kind = "build"
    /\ Stmt.name \in RuleNames(ctxs[InsertTarget].rules)

\* C7: inserting a rule whose name is already a key of the build-file context's
\* rules raises the duplicate-definition error in that very call, and the
\* failed insertion leaves every rules mapping as it was (the first record is
\* kept, no key is added or replaced).
C7_DuplicateRuleIsFatal ==
    [][ InsertsDuplicate =>
          /\ exc' = Exc("ValueError", "Duplicate rule definition")
          /\ \A c \in 1..Len(ctxs) : ctxs'[c].rules = ctxs[c].rules
      ]_vars

\* C7, its case: p5 defined rule "a" twice; the second call raised and p5's
\* rules still hold the one first record.
C7_Witness ==
    /\ exc = Exc("ValueError", "Duplicate rule definition")
    /\ query.buildFile = << "p5", BuildFileName >>
    /\ Len(ctxs[QueryContext].rules) = 1
    /\ ctxs[QueryContext].rules[1].name = "a"

C9_DiagnosticsFlushedOnAbort ==
    phase = "crashed" =>
        LET r == responses[Len(responses)]
            ds == ctxs[QueryContext].diagnostics
        IN  /\ \A i \in 1..Len(ds) :
                  \E j \in 1..Len(r.diagnostics) : r.diagnostics[j] = ds[i]
            /\ \E j \in 1..Len(r.diagnostics) : r.diagnostics[j].level = "fatal"

\* An exception has left process(): process_with_diagnostics handles it next.
FatalPending == phase = "running" /\ exc # NoExc /\ stack = <<>>

\* C10 as stated: a fatal exception ends the query but not the worker; once the
\* fatal response is written the worker is back at reading standard input.
C10_WorkerSurvivesFatal ==
    [][ FatalPending => phase' = "idle" ]_vars

\* C10, amended: a fatal exception ends the query and the worker.  The fatal
\* response is written, the exception is raised again out of main's loop, and
\* from then on the worker reads no query and writes no response.
C10_FatalEndsWorker ==
    [][ /\ phase # "crashed"
        /\ FatalPending =>
              /\ phase' = "crashed"
              /\ responses' = Append(responses, AbortedResponse(query, exc))
              /\ nread' = nread
      ]_vars

\* C10, its case: the worker crashed on a query while the parent had more to send.
C10_Witness ==
    /\ phase = "crashed"
    /\ nread < MaxQueries
    /\ Len(responses) = nread
    /\ ~Succeeded(responses[Len(responses)])

\* C11: for every query read from standard input exactly one response object
\* is written, whether the evaluation succeeds or fails, and responses are
\* written in the order the queries were read: a query is read only when every
\* earlier query has its response, a write appends one response for the query
\* being processed, and process_with_diagnostics is never left without it.
C11_OneResponsePerQuery ==
    [][ /\ nread' # nread =>
              /\ nread' = nread + 1
              /\ Len(responses) = nread
              /\ responses' = responses
        /\ responses' # responses =>
              /\ Len(responses) = nread - 1
              /\ \E r \in { responses'[Len(responses')] } :
                    /\ responses' = Append(responses, r)
                    /\ r.query = query
              /\ query' = query
        /\ (phase = "running" /\ phase' # "running") => Len(responses') = nread
      ]_vars

\* C11, its case: three queries were read, the second differs from the first,
\* the last one aborted, and there are three responses in the order of reading.
C11_Witness ==
    /\ nread = 3
    /\ Len(responses) = 3
    /\ phase = "crashed"
    /\ responses[1].query # responses[2].query
    /\ Succeeded(responses[1]) /\ Succeeded(responses[2])
    /\ ~Succeeded(responses[3])
    /\ responses[3].query = query


\* C12: after any query has finished, normally or with an error raised at any
\* nesting depth of include / load, builtins.open is the original function;
\* and while code of a build or extension file executes, open is wrapped
\* exactly once, never by a wrapper around a wrapper.
C12_FileOpenWrappedOnce ==
    /\ InBody => file_open = OrigOpen + 1
    /\ phase # "running" => file_open = OrigOpen

\* C12, its case: x failed two includes deep (p6 loads f, f loads x, f fails),
\* the query went on and the worker is idle again after it.
C12_Witness ==
    /\ phase = "idle"
    /\ query.buildFile = << "p6", BuildFileName >>
    /\ Len(responses) = nread
    /\ executed[PathF] >= 1
    /\ executed[PathX] >= 1
    /\ file_open = OrigOpen


\* The name of the first top-level binding of module mod that refers to UDR u.
FirstBinding(mod, u) ==
    mod[CHOOSE i \in 1..Len(mod) :
            /\ mod[i].v = UdrVal(u)
            /\ \A j \in 1..(i - 1) : mod[j].v # UdrVal(u)].k

\* C13: a UDR is named by the first top-level binding that refers to it: once
\* the extension that defines it has finished loading (its pair is cached),
\* its buck_type is "<label>:A" for A the first binding to it in the module,
\* also when a later top-level name (B = A) refers to the same UDR.
C13_FirstBindingNamesUdr ==
    \A k \in DOMAIN include_cache :
        LET c == include_cache[k].ctx
            mod == modules[include_cache[k].mod]
        IN  \A i \in 1..Len(mod) :
                (mod[i].v.t = "udr" /\ udrs[mod[i].v.v].label = ctxs[c].label)
                => udrs[mod[i].v.v].buck_type =
                       [label |-> ctxs[c].label, name |-> FirstBinding(mod, mod[i].v.v)]


\* A build file is about to call a UDR whose build_env is the build file's context.
CallsUdr ==
    /\ At("udr_call")
    /\ ctxs[Top.ctx].kind = "build"
    /\ Lookup(modules[Top.ctx], Stmt.sym).t = "udr"
    /\ udrs[Lookup(modules[Top.ctx], Stmt.sym).v].build_env = Top.ctx

\* The UDR the statement at the top frame calls.
CalledUdr == udrs[Lookup(modules[Top.ctx], Stmt.sym).v]

\* The exception the step raised, whether it propagates or the file's own
\* try/except caught it; NoExc if the statement completed.
RaisedInStep ==
    IF exc' # NoExc THEN exc'
    ELSE IF stack' # <<>> /\ Len(stack') = Len(stack) THEN stack'[Len(stack')].caught
    ELSE NoExc

\* No context's rules changed in the step.
RulesUnchanged == \A c \in 1..Len(ctxs) : ctxs'[c].rules = ctxs[c].rules

\* C14: calling a UDR from a build file with a keyword argument outside
\* required_attrs, optional_attrs and its public explicit attributes, or
\* without a required attribute, raises (is fatal unless the build file catches
\* it) and inserts no record into any context's rules.
C14_UdrKwargsValidated ==
    [][ (/\ CallsUdr
         /\ \/ \E k \in DOMAIN Stmt.kwargs :
                  /\ k \notin CalledUdr.required_attrs
                  /\ k \notin CalledUdr.optional_attrs
                  /\ k \notin { a \in DOMAIN CalledUdr.declared : a \notin PrivateSymbols }
            \/ \E k \in CalledUdr.required_attrs : k \notin DOMAIN Stmt.kwargs)
        => /\ RaisedInStep.type = "ValueError"
           /\ RulesUnchanged
      ]_vars

\* C14, its case: p9 has made its call with an unknown keyword (zzz) and its
\* call without name; both raised and p9's rules hold only the first record.
C14_Witness ==
    /\ stack # <<>>
    /\ Top.path = BuildPath("p9")
    /\ Top.pc = 6
    /\ Top.caught = Exc("ValueError", "Mandatory parameter was missing")
    /\ RuleNames(ctxs[Top.ctx].rules) = { "e" }

\* The record the step appended to the rules of the calling build file.
Emitted == ctxs'[Top.ctx].rules[Len(ctxs'[Top.ctx].rules)]
EmitsRecord == Len(ctxs'[Top.ctx].rules) = Len(ctxs[Top.ctx].rules) + 1

\* What C15 asks of the explicit attributes in the set ks, for the UDR call
\* at the top frame.
ExplicitAttrsHonoured(ks) ==
    \A k \in ks :
        LET v == CalledUdr.declared[k]
        IN  /\ (k \notin DOMAIN Stmt.kwargs /\ v.mandatory)
               => (RaisedInStep.type = "ValueError" /\ RulesUnchanged)
            /\ EmitsRecord =>
                  /\ k \in DOMAIN Emitted.attrs
                  /\ Emitted.attrs[k] =
                         IF k \in DOMAIN Stmt.kwargs THEN Stmt.kwargs[k] ELSE v.default

C16_PrivateAttrNotAccepted ==
    [][ /\ \A u \in 1..Len(udrs') :
              \A k \in DOMAIN udrs'[u].declared :
                  k \in PrivateSymbols => k \notin AllAttrs(udrs'[u])
        /\ (CallsUdr /\ \E k \in DOMAIN Stmt.kwargs :
                            k \in PrivateSymbols /\ k \in DOMAIN CalledUdr.declared)
              => /\ RaisedInStep = Exc("ValueError", "Unexpected extra parameter(s)")
                 /\ RulesUnchanged
      ]_vars

\* C16, its case: the call of p9 that passes _p has just raised and the
\* build file holds only the record of the earlier valid call.
C16_Witness ==
    /\ stack # <<>>
    /\ Top.path = BuildPath("p9")
    /\ Top.pc = 7
    /\ Top.caught = Exc("ValueError", "Unexpected extra parameter(s)")
    /\ \E u \in 1..Len(udrs) : "_p" \in DOMAIN udrs[u].declared
    /\ RuleNames(ctxs[Top.ctx].rules) = {"e"}


\* C17: package_name(), get_base_path(), get_cell_name() and
\* repository_name() raise when the active context is an include context and
\* bind nothing; rule() raises when the active context is a build-file
\* context and creates no rule object; in a build-file context package_name()
\* and get_base_path() both return that context's base_path.
C17_ContextGuards ==
    [][ /\ (At("builtin") /\ ctxs[current_build_env].kind = "include")
              => /\ RaisedInStep.type = "AssertionError"
                 /\ modules'[Top.ctx] = modules[Top.ctx]
        /\ (At("def_rule") /\ ctxs[current_build_env].kind = "build")
              => /\ RaisedInStep.type = "AssertionError"
                 /\ udrs' = udrs
                 /\ modules' = modules
        /\ (At("builtin") /\ ctxs[current_build_env].kind = "build"
                          /\ Stmt.fn \in { "package_name", "get_base_path" })
              => /\ RaisedInStep = NoExc
                 /\ Lookup(modules'[Top.ctx], Stmt.sym)
                        = StrVal(ctxs[current_build_env].base_path)
      ]_vars

\* C17, its case: in p10 the four calls made by the included file "v" raised
\* and bound nothing, the build file's own calls returned its base_path, and
\* its rule() call has just raised.
C17_Witness ==
    /\ stack # <<>>
    /\ exc.type = "AssertionError"
    /\ Top.path = BuildPath("p10")
    /\ Top.pc = 6
    /\ Lookup(modules[Top.ctx], "P") = StrVal(<< "p10" >>)
    /\ Lookup(modules[Top.ctx], "G") = StrVal(<< "p10" >>)
    /\ PathV \in DOMAIN include_cache
    /\ Keys(modules[include_cache[PathV].mod]) \cap { "P", "G", "C", "N" } = {}


\* The frame whose load is handed the include's module in this step (0 if
\* none): the top frame on a cache hit, the caller below when the included
\* file has run to its end.
LoadCaller ==
    IF At("load") THEN Len(stack)
    ELSE IF AtEnd /\ Len(stack) > 1 /\ Pending(stack[Len(stack) - 1]) = "load"
    THEN Len(stack) - 1
    ELSE 0
LoadStmt == Code(stack[LoadCaller].path)[stack[LoadCaller].pc]
\* The module _process_include returns to that load (0 if it returns none in
\* this step).
LoadedModule ==
    IF At("load")
    THEN LET r == GetLoadPath(Stmt.name, ctxs[current_build_env])
         IN  IF /\ Stmt.symbols # <<>> \/ Stmt.symbol_kwargs # <<>>
                /\ r.err = NoExc
                /\ CacheKey(r.bi) \in DOMAIN include_cache
             THEN include_cache[CacheKey(r.bi)].mod
             ELSE 0
    ELSE Top.ctx
\* The symbols a load statement requests: (name bound in the caller, name in
\* the module).
Requested(st) ==
    { << st.symbols[i], st.symbols[i] >> : i \in 1..Len(st.symbols) }
    \cup { << st.symbol_kwargs[i].k, st.symbol_kwargs[i].v >> :
              i \in 1..Len(st.symbol_kwargs) }

\* C18: when a load(path, a, b=c) returns normally, every requested symbol is
\* defined in path's module and the caller's globals bind a to the module's
\* value of a and b to the module's value of c; when a requested symbol is
\* not defined in path's module the load raises KeyError.
C18_LoadBindsRequestedSymbols ==
    [][ (LoadCaller # 0 /\ LoadedModule # 0) =>
           LET i == LoadCaller
               src == modules[LoadedModule]
               dst == modules'[stack[i].ctx]
               raised == IF exc' # NoExc THEN exc' ELSE stack'[i].caught
           IN  /\ (\E p \in Requested(LoadStmt) : p[2] \notin Keys(src))
                     => raised.type = "KeyError"
               /\ raised = NoExc =>
                     /\ stack'[i].pc = stack[i].pc + 1
                     /\ \A p \in Requested(LoadStmt) :
                           /\ p[2] \in Keys(src)
                           /\ Lookup(dst, p[1]) = Lookup(src, p[2])
      ]_vars

\* C18, its case: p3's load(path, Q = "R") has returned: Q is bound to the
\* rule object that R names in the module of "x", and R itself is not bound.
C18_Witness ==
    /\ stack # <<>>
    /\ Top.path = BuildPath("p3")
    /\ Top.pc = 4
    /\ exc = NoExc
    /\ PathX \in DOMAIN include_cache
    /\ Lookup(modules[Top.ctx], "Q").t = "udr"
    /\ Lookup(modules[Top.ctx], "Q") = Lookup(modules[include_cache[PathX].mod], "R")
    /\ "R" \notin Keys(modules[Top.ctx])


\* C19: in a context with allow_empty_globs false, every glob call either
\* raises or returns a non-empty list, be the list that of the empty-includes
\* short-circuit, of the watcher backend or of the filesystem walker.
C19_EmptyGlobIsFatal ==
    [][ (At("glob") /\ ~options.allow_empty_globs) =>
           \/ exc' # NoExc
           \/ LET v == Lookup(modules'[Top.ctx], Stmt.sym)
              IN  v.t = "list" /\ v.v # <<>>
      ]_vars

\* C19, its case: with allow_empty_globs false, p6's glob(["*"]) returned both
\* files and its glob([]) has just raised for the empty result.
C19_Witness ==
    /\ ~options.allow_empty_globs
    /\ stack # <<>>
    /\ Top.path = BuildPath("p6")
    /\ Top.pc = 4
    /\ exc = Exc("AssertionError", "glob returned no results")
    /\ Lookup(modules[Top.ctx], "S") = ListVal(<< "a", "b" >>)

C21_RecursiveGlobAtRoot ==
    [][ (At("glob") /\ ctxs[current_build_env].kind = "build") =>
           LET atRoot == ctxs[current_build_env].base_path = <<>>
               prefixed == \E i \in 1..Len(Stmt.includes) :
                              \E k \in 1..(Len(Stmt.includes[i]) - 1) :
                                  /\ Stmt.includes[i][k] = "**"
                                  /\ \A j \in 1..(k - 1) : Stmt.includes[i][j] = "*"
               rejected == /\ exc'.type = "BuildFileFailError"
                           /\ exc'.msg = "Recursive globs are prohibited at top-level directory"
           IN  /\ (atRoot /\ prefixed) => (rejected /\ glob_calls' = glob_calls
                                                    /\ modules' = modules)
               /\ ~(atRoot /\ prefixed) => ~rejected
      ]_vars

\* C21, its case: in the root build file the glob of "a/**/b" was let through
\* to a backend and the glob that includes "*/**/x" has just raised.
C21_Witness ==
    /\ stack # <<>>
    /\ Top.path = PathRoot
    /\ Top.pc = 9
    /\ exc = Exc("BuildFileFailError", "Recursive globs are prohibited at top-level directory")
    /\ "M" \in Keys(modules[Top.ctx])
    /\ glob_calls # {}


\* An include_defs call or an implicit include is about to resolve its name.
ResolvesIncludeName ==
    \/ At("include_defs")
    \/ Evaluating /\ Top.stage = "implicit" /\ Top.idx <= Len(ImplicitIncludes)
ResolvedIncludeName ==
    IF At("include_defs") THEN Stmt.name ELSE ImplicitIncludes[Top.idx]
\* The step built an IncludeContext for the resolved BuildInclude.
EntersInclude == Len(stack') = Len(stack) + 1 /\ Len(ctxs') = Len(ctxs) + 1

\* C22 as stated: the BuildInclude an include name resolves to carries the
\* name verbatim as its label, with an empty cell and with a named cell.
C22_IncludeLabelVerbatim ==
    [][ (ResolvesIncludeName /\ EntersInclude) =>
           ctxs'[Len(ctxs')].label
              = IncLabel(FALSE, ResolvedIncludeName.cell, ResolvedIncludeName.rel)
      ]_vars

\* C22, amended: the label is the name verbatim when the cell is empty, and
\* "@" followed by the name when the name has a cell.
C22_IncludeLabelAtForCell ==
    [][ (ResolvesIncludeName /\ EntersInclude) =>
           ctxs'[Len(ctxs')].label
              = IncLabel(ResolvedIncludeName.cell # "",
                         ResolvedIncludeName.cell, ResolvedIncludeName.rel)
      ]_vars

\* C22, its case: the root build file's include_defs("c//x") is executing x
\* under the label "@c//x", after the implicit include "//i" got the label "//i".
C22_Witness ==
    /\ Len(stack) = 2
    /\ stack[1].path = PathRoot
    /\ stack[1].stage = "body"
    /\ Top.path = PathX
    /\ ctxs[Top.ctx].label = IncLabel(TRUE, "c", << "x" >>)
    /\ PathI \in DOMAIN include_cache
    /\ ctxs[include_cache[PathI].ctx].label = IncLabel(FALSE, "", << "i" >>)


\* The statement at the top frame resolves a label that is malformed, names
\* an unknown cell, or is a relative load whose target contains "/".
ResolvesBadLabel ==
    \/ /\ At("include_defs") \/ At("add_build_file_dep")
       /\ \/ ~Stmt.name.slashes
          \/ Stmt.name.cell # "" /\ Stmt.name.cell \notin DOMAIN CellRoots
    \/ /\ At("load")
       /\ Stmt.symbols # <<>> \/ Stmt.symbol_kwargs # <<>>
       /\ \/ ~Stmt.name.colon
          \/ Stmt.name.cell # "" /\ Stmt.name.cell \notin DOMAIN CellRoots
          \/ ~Stmt.name.root /\ ContainsSlash(Stmt.name.target)

\* C23: resolving a malformed label, a label that names an unknown cell, or a
\* relative load whose target contains "/" raises; the step executes no file
\* and leaves the include cache and the active context's includes unchanged.
C23_BadLabelIsFatal ==
    [][ ResolvesBadLabel =>
           /\ RaisedInStep.type \in { "ValueError", "KeyError" }
           /\ Len(stack') = Len(stack)
           /\ executed' = executed
           /\ include_cache' = include_cache
           /\ ctxs'[current_build_env].includes = ctxs[current_build_env].includes
      ]_vars

\* C23, its case: the root build file has tried all six failing resolutions,
\* the last one (the relative load of "d/x") has just raised, and its includes
\* hold what its one good include_defs brought.
C23_Witness ==
    /\ stack # <<>>
    /\ Top.path = PathRoot
    /\ Top.pc = 8
    /\ Top.caught.type = "ValueError"
    /\ ctxs[Top.ctx].includes = { PathI, PathX }
    /\ DOMAIN include_cache = { PathI, PathX }


\* A load statement is about to resolve a well-formed label that names a cell.
LoadsFromCell ==
    /\ At("load")
    /\ Stmt.symbols # <<>> \/ Stmt.symbol_kwargs # <<>>
    /\ Stmt.name.colon
    /\ Stmt.name.cell # ""
\* The deprecation warning of _get_load_path is the diagnostic the step
\* appended first to the active context.
AppendsDeprecationWarning ==
    LET old == ctxs[current_build_env].diagnostics
        new == ctxs'[current_build_env].diagnostics
    IN  /\ Len(new) > Len(old)
        /\ new[Len(old) + 1] = Diagnostic("deprecated cell format", "warning", "load function")

\* C24 as stated: a load label whose cell has a leading "@" is resolved with
\* the "@" stripped and, warn_about_deprecated_syntax being set, appends a
\* deprecation warning to the active context.
C24_AtCellWarns ==
    [][ (LoadsFromCell /\ Stmt.name.at /\ WarnAboutDeprecatedSyntax)
           => AppendsDeprecationWarning ]_vars

\* C24, amended: a load label whose cell has a leading "@" is resolved with
\* the "@" stripped (a file it enters is the one under that cell's root, in
\* a context of that cell) and appends no deprecation warning; a label whose
\* cell has no leading "@" appends the warning when
\* warn_about_deprecated_syntax is set.
C24_CellWithoutAtWarns ==
    [][ LoadsFromCell =>
           /\ Stmt.name.at => ~AppendsDeprecationWarning
           /\ (~Stmt.name.at /\ WarnAboutDeprecatedSyntax) => AppendsDeprecationWarning
           /\ (Stmt.name.cell \in DOMAIN CellRoots /\ Len(stack') = Len(stack) + 1) =>
                 /\ ctxs'[Len(ctxs')].cell_name = Stmt.name.cell
                 /\ ctxs'[Len(ctxs')].path =
                        Normpath(CellRoots[Stmt.name.cell] \o Stmt.name.pkg
                                 \o << Stmt.name.target >>)
      ]_vars

\* C24, its case: p3 has loaded "@c//.:x", which ran x as a file of cell c,
\* and holds no diagnostic of the load function.
C24_Witness ==
    /\ stack # <<>>
    /\ Top.path = BuildPath("p3")
    /\ Top.pc = 4
    /\ exc = NoExc
    /\ PathX \in ctxs[Top.ctx].includes
    /\ ctxs[include_cache[PathX].ctx].cell_name = "c"
    /\ \A d \in 1..Len(ctxs[Top.ctx].diagnostics) :
          ctxs[Top.ctx].diagnostics[d].source # "load function"


\* C25: add_build_file_dep(name) adds the absolute path name resolves to
\* (the cell's root, or the project root for an empty cell, joined with the
\* relative path) to the active context's includes and changes nothing else:
\* no file is executed, the include cache, every other field of the context,
\* every other context, the modules and the rule objects stay as they were.
C25_AddBuildFileDepFrame ==
    [][ (At("add_build_file_dep") /\ Stmt.name.slashes
            /\ (Stmt.name.cell = "" \/ Stmt.name.cell \in DOMAIN CellRoots)) =>
           LET root == IF Stmt.name.cell = "" THEN ProjectRoot
                       ELSE CellRoots[Stmt.name.cell]
               path == Normpath(root \o Stmt.name.rel)
           IN  /\ ctxs' = [ctxs EXCEPT ![current_build_env].includes = @ \cup { path }]
               /\ exc' = NoExc
               /\ stack' = Advance(stack)
               /\ executed' = executed
               /\ include_cache' = include_cache
               /\ modules' = modules
               /\ udrs' = udrs
               /\ dicts' = dicts
      ]_vars

\* C25, its case: p6 has called add_build_file_dep("c//z"): z is in its
\* includes next to the implicit include, was never executed and is not cached.
C25_Witness ==
    /\ stack # <<>>
    /\ Top.path = BuildPath("p6")
    /\ Top.pc = 2
    /\ ctxs[Top.ctx].includes = { PathI, PathZ }
    /\ executed[PathZ] = 0
    /\ PathZ \notin DOMAIN include_cache


\* C26: the values list of a successful response holds the rule records of
\* the build file in the order they were inserted, followed by exactly three
\* meta entries, __includes, __configs and __env in this order.
C26_ValuesOrder ==
    [][ (AtEnd /\ Len(stack) = 1 /\ responses' # responses
           /\ Succeeded(responses'[Len(responses')])) =>
           LET v == responses'[Len(responses')].values
               rules == ctxs[Top.ctx].rules
               n == Len(rules)
           IN  /\ Len(v) = n + 3
               /\ \A i \in 1..n : v[i].key = "rule" /\ v[i].rule = rules[i]
               /\ v[n + 1].key = "__includes"
               /\ v[n + 2].key = "__configs"
               /\ v[n + 3].key = "__env"
      ]_vars

\* C26, its case: the response to p9 lists the records "e" and "n", inserted
\* in this order, and then the three meta entries.
C26_Witness ==
    \E r \in 1..Len(responses) :
        LET v == responses[r].values
        IN  /\ responses[r].query = Query("p9", NoPackageLoad)
            /\ Len(v) = 5
            /\ v[1].rule.name = "e"
            /\ v[2].rule.name = "n"
            /\ << v[3].key, v[4].key, v[5].key >> = << "__includes", "__configs", "__env" >>


\* Sequence s is the start of sequence t.
StartsWith(t, s) == Len(s) <= Len(t) /\ SubSeq(t, 1, Len(s)) = s
\* Sequence s is the end of sequence t.
EndsWith(t, s) == Len(s) <= Len(t) /\ SubSeq(t, Len(t) - Len(s) + 1, Len(t)) = s
\* The step returns from the code of an include to the operation that asked for it.
ReturnsFromInclude ==
    AtEnd /\ Len(stack) > 1 /\ exc' = NoExc /\ Len(stack') = Len(stack) - 1
\* The step is a load or include_defs served from the include cache.
ServedFromCache ==
    /\ At("load") \/ At("include_defs")
    /\ exc' = NoExc
    /\ Len(stack') = Len(stack)
    /\ stack'[Len(stack')].pc = Top.pc + 1
    /\ stack'[Len(stack')].caught = NoExc

OpenSucceeds ==
    /\ exc' = NoExc
    /\ Len(stack') = Len(stack)
    /\ stack'[Len(stack')].pc = Top.pc + 1
    /\ stack'[Len(stack')].caught = NoExc
    /\ Lookup(modules'[Top.ctx], Stmt.sym) = FileVal(Stmt.path)

\* C29: while the sandboxed code of a project file runs, an open of a path
\* that is not in the includes of the active context appends exactly one
\* warning of source "sandboxing" ("Access to a non-tracked file detected") to
\* the active context, and an open of a path that is in includes appends
\* nothing; in both cases the open succeeds and no other context changes.
C29_UntrackedOpenWarns ==
    [][ (At("open") /\ CalledFromProjectFile(Top.path)) =>
           LET env == current_build_env
               old == ctxs[env].diagnostics
               new == ctxs'[env].diagnostics
           IN  /\ OpenSucceeds
               /\ \A c \in 1..Len(ctxs) : c # env => ctxs'[c] = ctxs[c]
               /\ ctxs' = [ctxs EXCEPT ![env].diagnostics = new]
               /\ IF Stmt.path \in ctxs[env].includes
                  THEN new = old
                  ELSE /\ Len(new) = Len(old) + 1
                       /\ SubSeq(new, 1, Len(old)) = old
                       /\ new[Len(new)]
                             = Diagnostic("Access to a non-tracked file detected! "
                                             \o PathStr(Stmt.path),
                                          "warning", "sandboxing")
      ]_vars

\* C29, its case: the build file of p11 has opened /r/x, which was not in its
\* includes (one warning), and then /r/z after add_build_file_dep had put it
\* into includes (no further warning of its own: the second entry is o's).
C29_Witness ==
    /\ stack # <<>>
    /\ Len(stack) = 1
    /\ Top.path = BuildPath("p11")
    /\ Top.stage = "body"
    /\ Top.pc = 5
    /\ PathZ \in ctxs[Top.ctx].includes
    /\ PathX \notin ctxs[Top.ctx].includes
    /\ Lookup(modules[Top.ctx], "F") = FileVal(PathZ)
    /\ Len(ctxs[Top.ctx].diagnostics) = 2
    /\ ctxs[Top.ctx].diagnostics[1]
          = Diagnostic("Access to a non-tracked file detected! /r/x", "warning", "sandboxing")


\* C28: when encoding the full result fails, the response written for the
\* query has an empty values list and the original diagnostics followed by one
\* fatal diagnostic of source "parse" for the encoding error; exactly one
\* response is written and the worker waits for the next query.
C28_EncodingFallback ==
    [][ (AtEnd /\ Len(stack) = 1
           /\ ~JsonEncodable(Values(ctxs[Top.ctx], query.buildFile, dicts))) =>
           LET ds == ctxs[Top.ctx].diagnostics
           IN  /\ Len(responses') = Len(responses) + 1
               /\ SubSeq(responses', 1, Len(responses)) = responses
               /\ responses'[Len(responses')].query = query
               /\ responses'[Len(responses')].values = <<>>
               /\ Len(responses'[Len(responses')].diagnostics) = Len(ds) + 1
               /\ SubSeq(responses'[Len(responses')].diagnostics, 1, Len(ds)) = ds
               /\ responses'[Len(responses')].diagnostics[Len(ds) + 1].level = "fatal"
               /\ responses'[Len(responses')].diagnostics[Len(ds) + 1].source = "parse"
               /\ phase' = "idle"
               /\ exc' = NoExc
      ]_vars

\* C28, its case: the record "u" of p12 has an attribute without a JSON
\* encoding; the response has no values, the deprecation warning of p12's load
\* and then the fatal diagnostic, and the worker has read the next query.
C28_Witness ==
    /\ Len(responses) = 1
    /\ responses[1].query = Query("p12", NoPackageLoad)
    /\ responses[1].values = <<>>
    /\ Len(responses[1].diagnostics) = 2
    /\ responses[1].diagnostics[1].source = "load function"
    /\ responses[1].diagnostics[2] = Diagnostic("is not JSON serializable", "fatal", "parse")
    /\ phase = "running"
    /\ nread = 2


\* The flags of a flag record that are true.
TrueFlags(flags) == { f \in DOMAIN flags : flags[f] }

\* C30: for every (system, machine) pair host_info returns a record with
\* exactly one os flag and exactly one arch flag true: the flag of the table
\* entry of the lower-cased string (darwin -> macos, amd64 -> x86_64,
\* arm64 -> aarch64), and is_unknown for a string outside the tables.
C30_HostInfoFlags ==
    cached_host_info # NoHostInfo =>
        LET sys == Lower(platform[1])
            mach == Lower(platform[2])
            os == cached_host_info.os
            arch == cached_host_info.arch
        IN  /\ Cardinality(TrueFlags(os)) = 1
            /\ Cardinality(TrueFlags(arch)) = 1
            /\ sys \in DOMAIN SupportedOses => os["is_" \o SupportedOses[sys]]
            /\ sys \notin DOMAIN SupportedOses => os.is_unknown
            /\ mach \in DOMAIN SupportedArchs => arch["is_" \o SupportedArchs[mach]]
            /\ mach \notin DOMAIN SupportedArchs => arch.is_unknown
            /\ sys = << "d", "a", "r", "w", "i", "n" >> => os.is_macos
            /\ mach = << "a", "m", "d", "6", "4" >> => arch.is_x86_64
            /\ mach = << "a", "r", "m", "6", "4" >> => arch.is_aarch64

\* C30, its case: on ("Darwin", "AMD64") the record has is_macos and is_x86_64
\* and no other flag.
C30_Witness ==
    /\ platform = << << "D", "a", "r", "w", "i", "n" >>, << "A", "M", "D", "6", "4" >> >>
    /\ cached_host_info # NoHostInfo
    /\ TrueFlags(cached_host_info.os) = { "is_macos" }
    /\ TrueFlags(cached_host_info.arch) = { "is_x86_64" }


\* How often entry e occurs in list l.
Occurrences(l, e) == Cardinality({ i \in 1..Len(l) : l[i] = e })

\* C31: a report_profile query evaluates no build file and writes exactly one
\* response, with empty values; with profiling enabled the report lists at
\* most 10 of the processed build files, those with the largest durations, in
\* descending order of duration.
C31_ReportProfile ==
    [][ (phase = "idle" /\ nread' = nread + 1 /\ DOMAIN query' = { "command" }) =>
           LET r == responses'[Len(responses')]
               files == r.profile.files
               n == Len(processed_build_file)
           IN  /\ UNCHANGED << executed, ctxs, modules, include_cache, stack,
                               current_build_env, phase >>
               /\ responses' = Append(responses, r)
               /\ r.values = <<>>
               /\ options.profile =>
                     /\ Len(files) = IF n > 10 THEN 10 ELSE n
                     /\ \A i \in 1..Len(files) : \A j \in i..Len(files) :
                           files[i].duration >= files[j].duration
                     /\ \A i \in 1..Len(files) :
                           Occurrences(files, files[i])
                              <= Occurrences(processed_build_file, files[i])
                     /\ \A i \in 1..n :
                           LET e == processed_build_file[i]
                           IN  Occurrences(files, e) < Occurrences(processed_build_file, e)
                                  => \A j \in 1..Len(files) : files[j].duration >= e.duration
      ]_vars

\* C31, its case: eleven build files were processed, with both durations among
\* them, and the report shows ten, the slowest first, leaving out a fast one.
C31_Witness ==
    /\ responses # <<>>
    /\ IsReport(responses[Len(responses)])
    /\ options.profile
    /\ Len(processed_build_file) = 11
    /\ LET files == responses[Len(responses)].profile.files
       IN  /\ Len(files) = 10
           /\ files[1].duration = 2
           /\ files[10].duration = 1
           /\ processed_build_file[11].duration = 1
    /\ Len(responses) = 12


\* The step merges context src into context dst: what merge leaves in dst,
\* given dst's includes and diagnostics as the caller had them before it.
MergedInto(dst, src) ==
    LET d == ctxs[dst]
        e == ctxs'[dst]
        o == ctxs'[src]
    IN  /\ e.includes = d.includes \cup { o.path } \cup o.includes
        /\ StartsWith(e.diagnostics, d.diagnostics)
        /\ EndsWith(e.diagnostics, o.diagnostics)
        /\ Len(e.diagnostics) <= Len(d.diagnostics) + 1 + Len(o.diagnostics)
        /\ DOMAIN e.used_configs = DOMAIN d.used_configs \cup DOMAIN o.used_configs
        /\ \A k \in DOMAIN e.used_configs :
              e.used_configs[k] = IF k \in DOMAIN o.used_configs THEN o.used_configs[k]
                                  ELSE d.used_configs[k]
        /\ DOMAIN e.used_env_vars = DOMAIN d.used_env_vars \cup DOMAIN o.used_env_vars
        /\ \A k \in DOMAIN e.used_env_vars :
              e.used_env_vars[k] = IF k \in DOMAIN o.used_env_vars THEN o.used_env_vars[k]
                                   ELSE d.used_env_vars[k]
        /\ e.user_rules = d.user_rules \cup o.user_rules
        /\ e.rules = d.rules
        /\ e.base_path = d.base_path
        /\ e.cell_name = d.cell_name
        /\ e.path = d.path
        /\ e.label = d.label
        /\ e.kind = d.kind
        /\ e.implicit_package_symbols = d.implicit_package_symbols
\* Context src is left as it was, its user_rules aside (_process_include fills
\* them before the caller merges).
SourceUntouched(src) == [ctxs'[src] EXCEPT !.user_rules = {}] = [ctxs[src] EXCEPT !.user_rules = {}]

\* C32: dst.merge(src), as load and include_defs call it after adding the
\* include's path: dst's includes become the union, src's diagnostics follow
\* dst's, used_configs and used_env_vars take src's entry on equal keys,
\* user_rules become the union; rules, base_path, cell_name and
\* implicit_package_symbols of dst and every field of src stay as they were.
C32_MergeFrame ==
    [][ /\ (ReturnsFromInclude /\ stack'[Len(stack')].caught = NoExc
              /\ stack[Len(stack) - 1].stage = "body") =>
              /\ MergedInto(stack[Len(stack) - 1].ctx, Top.ctx)
              /\ SourceUntouched(Top.ctx)
        /\ ServedFromCache =>
              /\ MergedInto(Top.ctx, CachedContext(IncludeTarget))
              /\ ctxs'[CachedContext(IncludeTarget)] = ctxs[CachedContext(IncludeTarget)]
      ]_vars

\* C32, its case: p3 had read section "s" itself before it loaded x, which
\* had read "s" too; after the merge p3's entry for "s" is x's section dict,
\* its entry for "t" is its own, and x's path is in its includes.
C32_Witness ==
    /\ stack # <<>>
    /\ Len(stack) = 1
    /\ Top.path = BuildPath("p3")
    /\ Top.stage = "body"
    /\ Top.pc = 4
    /\ Cached(PathX)
    /\ "s" \in DOMAIN ctxs[Top.ctx].used_configs
    /\ ctxs[Top.ctx].used_configs["s"] = ctxs[CachedContext(PathX)].used_configs["s"]
    /\ "t" \in DOMAIN ctxs[Top.ctx].used_configs
    /\ PathX \in ctxs[Top.ctx].includes


\* C33: while a _process call is active (its file's code executing, or an
\* exception on its way out of it) the current context and the build_env of
\* every built-in are the context of the innermost call, so that after a
\* nested include or load has returned or raised they are the caller's again;
\* when no call is active (before, between and after queries, finished
\* normally or with an error) the current context is None.
C33_ContextStack ==
    /\ stack # <<>> => current_build_env = Top.ctx /\ fn_build_env = Top.ctx
    /\ stack = <<>> => current_build_env = NoEnv /\ fn_build_env = NoEnv

\* C33, its case: in p6 the guarded load of f raised inside f after f had
\* loaded x; the exception was caught in p6, whose code goes on with p6's
\* context as the current one.
C33_Witness ==
    /\ stack # <<>>
    /\ Len(stack) = 1
    /\ Top.path = BuildPath("p6")
    /\ Top.stage = "body"
    /\ Top.pc = 4
    /\ Top.caught # NoExc
    /\ executed[PathF] > 0
    /\ current_build_env = Top.ctx
    /\ ctxs[current_build_env].kind = "build"


\* C34: when the evaluation of a query raised SystemExit, the response written
\* for the query carries no fatal diagnostic.
C34_NoDiagnosticForSystemExit ==
    (phase = "crashed" /\ exc.type = "SystemExit") =>
        LET r == responses[Len(responses)]
        IN  /\ r.query = query
            /\ \A j \in 1..Len(r.diagnostics) : r.diagnostics[j].level # "fatal"


\* C35: every record in the rules of a build-file context is stored under
\* its own name, which is a string and the name of no other record there, and
\* its buck.base_path is the base_path of that context.
C35_RulesKeyedAndBased ==
    \A c \in DOMAIN ctxs :
        ctxs[c].kind = "build" =>
            \A i \in 1..Len(ctxs[c].rules) :
                /\ IsString(ctxs[c].rules[i].name)
                /\ ctxs[c].rules[i].base_path = ctxs[c].base_path
                /\ \A j \in 1..Len(ctxs[c].rules) :
                       ctxs[c].rules[j].name = ctxs[c].rules[i].name => j = i

\* C35, its case: a native rule call and a UDR call have each stored a record
\* in the context of a build file of a package below the root, and p12's UDR
\* call with a name that is no string was refused by add_rule.
C35_Witness ==
    /\ \E c \in DOMAIN ctxs :
           /\ ctxs[c].kind = "build"
           /\ ctxs[c].base_path # <<>>
           /\ \E i \in 1..Len(ctxs[c].rules) :
                  ctxs[c].rules[i].type = NativeType("java_library")
    /\ \E c \in DOMAIN ctxs :
           /\ ctxs[c].kind = "build"
           /\ ctxs[c].base_path # <<>>
           /\ \E i \in 1..Len(ctxs[c].rules) :
                  ctxs[c].rules[i].type # NativeType("java_library")
    /\ stack # <<>>
    /\ Top.path = BuildPath("p12")
    /\ Top.pc = 4
    /\ Top.caught = Exc("ValueError", "rules 'name' field must be a string")


\* What a context records for the response, its used_configs by content.
Recorded(cs, ds, c) ==
    [includes |-> cs[c].includes,
     used_configs |-> [s \in DOMAIN cs[c].used_configs |-> ds[cs[c].used_configs[s]]],
     used_env_vars |-> cs[c].used_env_vars,
     diagnostics |-> cs[c].diagnostics]

\* C36: once an include is in the include cache, no step changes the
\* includes, used_configs, used_env_vars or diagnostics of its cached context.
C36_CachedContextFrozen ==
    [][\A p \in DOMAIN include_cache :
           Recorded(ctxs', dicts', include_cache[p].ctx)
               = Recorded(ctxs, dicts, include_cache[p].ctx)]_vars


\* C37: a rule record emitted while a query is evaluated goes into the context
\* of that query's build file, the one whose rules make up the query's
\* response, and into the context of no other query.
C37_QueryIsolation ==
    [][\A c \in DOMAIN ctxs :
           ctxs'[c].rules # ctxs[c].rules =>
               /\ stack # <<>>
               /\ ctxs[stack[1].ctx].kind = "build"
               /\ stack[1].path = ProjectRoot \o query.buildFile
               /\ c = stack[1].ctx]_vars


\* C38: a diagnostic that has been produced once appears at most once in the
\* diagnostics of a response, also when the include that produced it is
\* reached by several paths or included more than once by the build file.
C38_DiagnosticsNotDuplicated ==
    \A i \in 1..Len(responses) :
        \A d \in DOMAIN produced :
            produced[d] = 1 => Occurrences(responses[i].diagnostics, d) <= 1


\* C39: the include cache receives an entry only in the step in which the
\* code of an include has run to its end without an exception, for that
\* include's path.  In a step in which an exception leaves an include, no
\* entry exists for its path afterwards and the caller's includes and globals
\* are as before.  A load or include_defs of a path that is not in the cache,
\* a path whose earlier execution raised included, starts a new execution of
\* the file.
C39_CacheOnlyAfterSuccess ==
    [][/\ \A k \in DOMAIN include_cache' \ DOMAIN include_cache :
              /\ AtEnd
              /\ Len(stack) > 1
              /\ exc = NoExc
              /\ k = Top.path
              /\ ctxs[Top.ctx].kind = "include"
              /\ include_cache'[k].ctx = Top.ctx
       /\ (phase = "running" /\ exc # NoExc /\ Len(stack) > 1
           /\ ctxs[Top.ctx].kind = "include")
          => LET caller == stack[Len(stack) - 1]
             IN  /\ Top.path \notin DOMAIN include_cache'
                 /\ ~Cached(Top.path)'
                 /\ Len(stack') = Len(stack) - 1
                 /\ ctxs'[caller.ctx].includes = ctxs[caller.ctx].includes
                 /\ modules'[caller.ctx] = modules[caller.ctx]
       /\ ((At("load") \/ At("include_defs")) /\ exc' = NoExc
           /\ Len(stack') = Len(stack) /\ stack'[Len(stack')].caught = NoExc)
          => Cached(IncludeTarget)
       /\ \A f \in Files :
              (executed'[f] > executed[f] /\ executed[f] > 0 /\ ctxs[Top.ctx].kind = "include")
              => ~Cached(f)
      ]_vars

\* C39, its case: f.bzl has been executed for the second time, by p6's
\* guarded load in a second query, and has raised again after loading x from
\* the cache; the cache holds x and not f, and p6's includes and globals have
\* received neither f nor the symbol R.
C39_Witness ==
    /\ stack # <<>>
    /\ Len(stack) = 1
    /\ Top.path = BuildPath("p6")
    /\ Top.caught # NoExc
    /\ executed[PathF] = 2
    /\ executed[PathX] = 1
    /\ PathX \in DOMAIN include_cache
    /\ PathF \notin DOMAIN include_cache
    /\ PathF \notin ctxs[Top.ctx].includes
    /\ Lookup(modules[Top.ctx], "R") = Unbound

====
